---------------------------- MODULE Spec2Model ----------------------------
(***************************************************************************)
(* Match simulation of bones_volleyball: the per-tick systems of the       *)
(* gameplay session (player_movement, ball_movement, ball_player_collision,*)
(* ball_net_collision, update_ball_visibility, handle_escape), MatchState  *)
(* and the MatchInputs the session runner fills in before every tick.      *)
(*                                                                         *)
(* Numbers.  The source computes in f32.  Here every length and velocity   *)
(* is an integer count of 1/Scale world units (Scale = 160 is the smallest *)
(* scale at which every constant of gameplay.rs is an integer), products   *)
(* with a fractional factor round toward zero, and angles are integers in  *)
(* units of 1/AngleScale radian.                                           *)
(***************************************************************************)
EXTENDS Integers, Sequences, FiniteSets, TLC

----------------------------------------------------------------------------
(* Fixed-point arithmetic standing in for f32 *)

Scale == 16 * 10
AngleScale == 100 * 100

Abs(a) == IF a >= 0 THEN a ELSE -a

\* a / b rounded toward zero (b > 0)
Quot(a, b) == IF a >= 0 THEN a \div b ELSE -((-a) \div b)

\* f32::clamp
Clamp(v, lo, hi) == IF v < lo THEN lo ELSE IF v > hi THEN hi ELSE v

\* f32::signum: 1.0 for +0.0 and every positive number, -1.0 for negatives
Signum(a) == IF a >= 0 THEN 1 ELSE -1

RECURSIVE SqrtSearch(_, _, _)
\* least r in lo..hi with r * r >= n
SqrtSearch(n, lo, hi) ==
    IF lo >= hi THEN lo
    ELSE LET mid == (lo + hi) \div 2
         IN IF mid * mid >= n THEN SqrtSearch(n, lo, mid)
                              ELSE SqrtSearch(n, mid + 1, hi)

\* Vec2::length, rounded up to the next 1/Scale
Length(v) == SqrtSearch(v.x * v.x + v.y * v.y, 0, 8192)

\* f32::sin and f32::cos of an angle a (in 1/AngleScale radian, |a| < 1.6 rad),
\* by their Taylor polynomials; results in 1/AngleScale
Pow(a, n) ==
    LET p2 == Quot(a * a, AngleScale)
        p3 == Quot(p2 * a, AngleScale)
        p4 == Quot(p3 * a, AngleScale)
        p5 == Quot(p4 * a, AngleScale)
        p6 == Quot(p5 * a, AngleScale)
        p7 == Quot(p6 * a, AngleScale)
        p8 == Quot(p7 * a, AngleScale)
    IN <<a, p2, p3, p4, p5, p6, p7, p8>>[n]

Sin(a) == a - Quot(Pow(a, 3), 6) + Quot(Pow(a, 5), 120) - Quot(Pow(a, 7), 5040)

Cos(a) == AngleScale - Quot(Pow(a, 2), 2) + Quot(Pow(a, 4), 24)
          - Quot(Pow(a, 6), 720) + Quot(Pow(a, 8), 40320)

----------------------------------------------------------------------------
(* Constants of gameplay.rs, in 1/Scale units *)

TARGET_SCORE == 15
GROUND_LEVEL == -244 * Scale
GRAVITY == (175 * 15 * 15 * Scale) \div 100000
MOVE_SPEED == (435 * Scale) \div 100
JUMP_VELOCITY == (75 * 15 * Scale) \div 100
LEFT_BOUNDARY == -530 * Scale
RIGHT_BOUNDARY == 510 * Scale
CENTER_BOUNDARY == 0 * Scale
NET_WIDTH == 10 * Scale
NET_HEIGHT == 62 * Scale
PLAYER_WIDTH == 90 * Scale
PLAYER_HEIGHT == 14 * Scale
BALL_RADIUS == 10 * Scale
\* 0.8 and 1.2, in tenths
BALL_BOUNCE_FACTOR == 8
PLAYER_BOUNCE_FACTOR == 12
MAX_BALL_SPEED == (1125 * 15 * Scale) \div 1000
\* the literal 290.0 of ball_movement's ceiling test
CEILING == 290 * Scale
\* std::f32::consts::FRAC_PI_4, in 1/AngleScale radian
FRAC_PI_4 == 7854
\* the x of Ball::reset and of the players' start positions
RESET_X == 290 * Scale

PlayerIdx == {0, 1}

Vec2(x, y) == [x |-> x, y |-> y]

\* v * BALL_BOUNCE_FACTOR
TimesBounce(v) == Quot(v * BALL_BOUNCE_FACTOR, 10)


----------------------------------------------------------------------------
(* MatchState (gameplay.rs) *)

\* MatchState::new
MatchStateNew(target_score) ==
    [player_scores |-> [i \in PlayerIdx |-> 0], target_score |-> target_score]

\* MatchState::get_player_score
get_player_score(ms, player_idx) == ms.player_scores[player_idx]

\* (mutant) the increment reaches every player's score
increment_player_score_all(ms, player_idx) ==
    [ms EXCEPT !.player_scores = [i \in PlayerIdx |-> @[i] + 1]]

\* MatchState::increment_player_score
increment_player_score(ms, player_idx) ==
    [ms EXCEPT !.player_scores[player_idx] = @ + 1]

\* (mutant) a winner needs more than the target score
check_for_match_winner_gt(ms) ==
    IF ms.player_scores[0] > ms.target_score THEN 0
    ELSE IF ms.player_scores[1] > ms.target_score THEN 1
    ELSE -1

\* MatchState::check_for_match_winner: the first index whose score has
\* reached the target, -1 for None
check_for_match_winner(ms) ==
    IF ms.player_scores[0] >= ms.target_score THEN 0
    ELSE IF ms.player_scores[1] >= ms.target_score THEN 1
    ELSE -1

\* MatchState::is_finished
is_finished(ms) == check_for_match_winner(ms) # -1

----------------------------------------------------------------------------
(* PlayerControl and MatchInputs (input.rs) *)

\* PlayerControl::default, for a control of MatchInputs: the horizontal axes
\* and the three buttons with their just-pressed flags
PlayerControlDefault ==
    [left |-> 0, right |-> 0,
     jump_pressed |-> FALSE, jump_just_pressed |-> FALSE,
     esc_start_pressed |-> FALSE, esc_start_just_pressed |-> FALSE,
     enter_pressed |-> FALSE, enter_just_pressed |-> FALSE]

\* What one player's DensePlayerControl carries for one tick of a match: the
\* horizontal direction, jump and escape; enter stays up during a match
DenseInputs ==
    [move_x : {-1, 0, 1}, jump_pressed : BOOLEAN, esc_start_pressed : BOOLEAN,
     enter_pressed : {FALSE}]

Max(a, b) == IF a >= b THEN a ELSE b

\* PlayerControl::update_from_dense
update_from_dense(control, new_control) ==
    [left |-> Max(-new_control.move_x, 0),
     right |-> Max(new_control.move_x, 0),
     jump_pressed |-> new_control.jump_pressed,
     jump_just_pressed |-> ~control.jump_pressed /\ new_control.jump_pressed,
     esc_start_pressed |-> new_control.esc_start_pressed,
     esc_start_just_pressed |->
         ~control.esc_start_pressed /\ new_control.esc_start_pressed,
     enter_pressed |-> new_control.enter_pressed,
     enter_just_pressed |-> ~control.enter_pressed /\ new_control.enter_pressed]

\* The dense input a control was last updated from
DenseOf(control) ==
    [move_x |-> control.right - control.left,
     jump_pressed |-> control.jump_pressed,
     esc_start_pressed |-> control.esc_start_pressed,
     enter_pressed |-> control.enter_pressed]

\* (mutant) every player is handed the first player's control
get_control_first(match_inputs, player_idx) == match_inputs[0]

\* MatchInputs::get_control
get_control(match_inputs, player_idx) == match_inputs[player_idx]

----------------------------------------------------------------------------
(* PlayerInputCollector (input.rs).  A key event is [control, pressed]: a   *)
(* key the mapping holds for that control went down or up.  A gamepad event *)
(* is [axis, value] or [button, value], values in tenths.                   *)

\* PlayerControl::default, every field: the controls a collector holds
CollectorControlDefault ==
    [left |-> 0, right |-> 0, up |-> 0, down |-> 0,
     left_pressed |-> FALSE, right_pressed |-> FALSE,
     up_pressed |-> FALSE, down_pressed |-> FALSE,
     just_moved |-> FALSE, moving |-> FALSE,
     esc_start_pressed |-> FALSE, esc_start_just_pressed |-> FALSE,
     jump_pressed |-> FALSE, jump_just_pressed |-> FALSE,
     enter_pressed |-> FALSE, enter_just_pressed |-> FALSE]

\* PlayerInputCollector::default
PlayerInputCollectorDefault ==
    [current_controls |-> CollectorControlDefault,
     last_controls |-> CollectorControlDefault]

\* "Update pressed state based on key events", for one event
ApplyKeyEvent(c, event) ==
    CASE event.control = "left" -> [c EXCEPT !.left_pressed = event.pressed]
      [] event.control = "right" -> [c EXCEPT !.right_pressed = event.pressed]
      [] event.control = "up" -> [c EXCEPT !.up_pressed = event.pressed]
      [] event.control = "down" -> [c EXCEPT !.down_pressed = event.pressed]
      [] event.control = "jump" -> [c EXCEPT !.jump_pressed = event.pressed]
      [] event.control = "esc_start" -> [c EXCEPT !.esc_start_pressed = event.pressed]
      [] event.control = "enter" -> [c EXCEPT !.enter_pressed = event.pressed]
      [] OTHER -> c

\* "Set movement values based on pressed state"
AxesFromPressed(c) ==
    [c EXCEPT !.left = IF c.left_pressed THEN 1 ELSE 0,
              !.right = IF c.right_pressed THEN 1 ELSE 0,
              !.up = IF c.up_pressed THEN 1 ELSE 0,
              !.down = IF c.down_pressed THEN 1 ELSE 0]

\* "Now apply gamepad input", for one event
ApplyGamepadEvent(c, event) ==
    CASE "axis" \in DOMAIN event /\ event.axis = "LeftStickX" ->
            IF event.value < -2
            THEN [c EXCEPT !.left = 1, !.right = 0,
                           !.left_pressed = TRUE, !.right_pressed = FALSE]
            ELSE IF event.value > 2
            THEN [c EXCEPT !.right = 1, !.left = 0,
                           !.right_pressed = TRUE, !.left_pressed = FALSE]
            ELSE [c EXCEPT !.left = 0, !.right = 0,
                           !.left_pressed = FALSE, !.right_pressed = FALSE]
      [] "axis" \in DOMAIN event /\ event.axis = "LeftStickY" ->
            IF event.value < -2
            THEN [c EXCEPT !.down = 1, !.up = 0,
                           !.down_pressed = TRUE, !.up_pressed = FALSE]
            ELSE IF event.value > 2
            THEN [c EXCEPT !.up = 1, !.down = 0,
                           !.up_pressed = TRUE, !.down_pressed = FALSE]
            ELSE [c EXCEPT !.up = 0, !.down = 0,
                           !.up_pressed = FALSE, !.down_pressed = FALSE]
      [] "button" \in DOMAIN event /\ event.button = "DPadLeft" ->
            [c EXCEPT !.left = IF event.value > 2 THEN 1 ELSE 0,
                      !.left_pressed = event.value > 2]
      [] "button" \in DOMAIN event /\ event.button = "DPadRight" ->
            [c EXCEPT !.right = IF event.value > 2 THEN 1 ELSE 0,
                      !.right_pressed = event.value > 2]
      [] "button" \in DOMAIN event /\ event.button = "DPadUp" ->
            [c EXCEPT !.up = IF event.value > 2 THEN 1 ELSE 0,
                      !.up_pressed = event.value > 2]
      [] "button" \in DOMAIN event /\ event.button = "DPadDown" ->
            [c EXCEPT !.down = IF event.value > 2 THEN 1 ELSE 0,
                      !.down_pressed = event.value > 2]
      [] "button" \in DOMAIN event /\ event.button = "South" ->
            [c EXCEPT !.jump_pressed = event.value > 5]
      [] "button" \in DOMAIN event /\ event.button = "Start" ->
            [c EXCEPT !.esc_start_pressed = event.value > 5]
      [] OTHER -> c

RECURSIVE ApplyKeyEvents(_, _)
ApplyKeyEvents(c, key_events) ==
    IF key_events = <<>> THEN c
    ELSE ApplyKeyEvents(ApplyKeyEvent(c, Head(key_events)), Tail(key_events))

RECURSIVE ApplyGamepadEvents(_, _)
ApplyGamepadEvents(c, gamepad_events) ==
    IF gamepad_events = <<>> THEN c
    ELSE ApplyGamepadEvents(ApplyGamepadEvent(c, Head(gamepad_events)),
                            Tail(gamepad_events))

\* PlayerInputCollector::apply_inputs
apply_inputs(collector, key_events, gamepad_events) ==
    [collector EXCEPT !.current_controls =
        ApplyGamepadEvents(AxesFromPressed(ApplyKeyEvents(@, key_events)),
                           gamepad_events)]

\* (mutant) the just-pressed flags follow the pressed flags
update_just_pressed_level(collector) ==
    LET current == collector.current_controls
        moving == current.left > 0 \/ current.right > 0
                    \/ current.up > 0 \/ current.down > 0
    IN [collector EXCEPT !.current_controls =
          [current EXCEPT
             !.esc_start_just_pressed = current.esc_start_pressed,
             !.moving = moving,
             !.jump_just_pressed = current.jump_pressed,
             !.just_moved = moving,
             !.enter_just_pressed = current.enter_pressed]]

\* PlayerInputCollector::update_just_pressed
update_just_pressed(collector) ==
    LET last == collector.last_controls
        current == collector.current_controls
        moving == current.left > 0 \/ current.right > 0
                    \/ current.up > 0 \/ current.down > 0
    IN [collector EXCEPT !.current_controls =
          [current EXCEPT
             !.esc_start_just_pressed =
                 current.esc_start_pressed /\ ~last.esc_start_pressed,
             !.moving = moving,
             !.jump_just_pressed = current.jump_pressed /\ ~last.jump_pressed,
             !.just_moved = moving /\ ~last.moving,
             !.enter_just_pressed = current.enter_pressed /\ ~last.enter_pressed]]

\* (mutant) the frame is not advanced: last_controls stays as it is
advance_frame_skip(collector) == collector

\* PlayerInputCollector::advance_frame
advance_frame(collector) ==
    [collector EXCEPT !.last_controls = collector.current_controls]

\* handle_menu_input (menu.rs): the three collector calls of a frame
handle_menu_input(collector, key_events, gamepad_events) ==
    advance_frame(update_just_pressed(
        apply_inputs(collector, key_events, gamepad_events)))

----------------------------------------------------------------------------
(* DensePlayerControl (input.rs): a u32 *)

\* (value & (1 << n)) != 0
TestBit(value, n) == (value \div 2^n) % 2 = 1

\* value |= 1 << n
SetBit(value, n) == IF TestBit(value, n) THEN value ELSE value + 2^n

\* the values of a u16: what DenseMoveDirection converts a direction into
U16 == 0 .. (2^16 - 1)

\* (mutant) escape/start and enter trade their bits
DensePlayerControlNew_swapped(move_direction_u16, jump_pressed, esc_start_pressed, enter_pressed) ==
    LET value0 == move_direction_u16
        value1 == IF jump_pressed THEN SetBit(value0, 16) ELSE value0
        value2 == IF esc_start_pressed THEN SetBit(value1, 18) ELSE value1
    IN IF enter_pressed THEN SetBit(value2, 17) ELSE value2

\* DensePlayerControl::new, from the u16 its move_direction converts into
DensePlayerControlNew(move_direction_u16, jump_pressed, esc_start_pressed, enter_pressed) ==
    LET value0 == move_direction_u16
        value1 == IF jump_pressed THEN SetBit(value0, 16) ELSE value0
        value2 == IF esc_start_pressed THEN SetBit(value1, 17) ELSE value1
    IN IF enter_pressed THEN SetBit(value2, 18) ELSE value2

\* the u16 DensePlayerControl::move_direction converts back: self.0 & 0xFFFF
dense_move_direction_u16(value) == value % 2^16

\* DensePlayerControl::jump_pressed, esc_start_pressed, enter_pressed
dense_jump_pressed(value) == TestBit(value, 16)
dense_esc_start_pressed(value) == TestBit(value, 17)
dense_enter_pressed(value) == TestBit(value, 18)

----------------------------------------------------------------------------
(* Systems of the gameplay session.  Each maps the world before it runs to  *)
(* the world after it.  A world is a record                                 *)
(*   ball: [velocity, translation]      players: idx -> [velocity,          *)
(*   translation, is_grounded, idx]     match_state, match_inputs,          *)
(*   net: translation of the net        floor: translation of the floor     *)
(*   color: [r, g, b, a] of the ball's Path2d                                *)
(*   session: [delete, main_menus]                                          *)
(***************************************************************************)

\* (mutant) the inner bounds of the players end at the edges of the net,
\* NET_WIDTH/2 from the centre
PlayerBounds_netedge(idx) ==
    IF idx = 0
    THEN <<LEFT_BOUNDARY + PLAYER_WIDTH \div 2,
           CENTER_BOUNDARY - PLAYER_WIDTH \div 2 - NET_WIDTH \div 2>>
    ELSE <<CENTER_BOUNDARY + NET_WIDTH \div 2 + PLAYER_WIDTH \div 2,
           RIGHT_BOUNDARY - PLAYER_WIDTH \div 2>>

\* (mutant) the right player's and left player's inner bounds forget the net
PlayerBounds_nonet(idx) ==
    IF idx = 0
    THEN <<LEFT_BOUNDARY + PLAYER_WIDTH \div 2, CENTER_BOUNDARY - PLAYER_WIDTH \div 2>>
    ELSE <<CENTER_BOUNDARY + PLAYER_WIDTH \div 2, RIGHT_BOUNDARY - PLAYER_WIDTH \div 2>>

\* "Determine player boundaries" of player_movement: <<left_bound, right_bound>>
PlayerBounds(idx) ==
    IF idx = 0
    THEN <<LEFT_BOUNDARY + PLAYER_WIDTH \div 2,
           CENTER_BOUNDARY - PLAYER_WIDTH \div 2 - NET_WIDTH>>
    ELSE <<CENTER_BOUNDARY + NET_WIDTH + PLAYER_WIDTH \div 2,
           RIGHT_BOUNDARY - PLAYER_WIDTH \div 2>>

\* (mutant) the jump is handled before gravity is applied
MovePlayer_gravity(player, player_control) ==
    LET movement == Clamp(player_control.right - player_control.left, -1, 1)
        jumps == player_control.jump_pressed /\ player.is_grounded
        vy == (IF jumps THEN JUMP_VELOCITY ELSE player.velocity.y) - GRAVITY
        vx == movement * MOVE_SPEED
        x2 == Clamp(player.translation.x + vx,
                    PlayerBounds(player.idx)[1], PlayerBounds(player.idx)[2])
        y1 == player.translation.y + vy
    IN IF y1 <= GROUND_LEVEL
       THEN [player EXCEPT !.velocity = Vec2(vx, 0),
                           !.translation = Vec2(x2, GROUND_LEVEL),
                           !.is_grounded = TRUE]
       ELSE [player EXCEPT !.velocity = Vec2(vx, vy),
                           !.translation = Vec2(x2, y1),
                           !.is_grounded = FALSE]

\* (mutant) the jump does not ask whether the player is grounded
MovePlayer_airjump(player, player_control) ==
    LET movement == Clamp(player_control.right - player_control.left, -1, 1)
        vy == IF player_control.jump_pressed THEN JUMP_VELOCITY
              ELSE player.velocity.y - GRAVITY
        vx == movement * MOVE_SPEED
        x2 == Clamp(player.translation.x + vx,
                    PlayerBounds(player.idx)[1], PlayerBounds(player.idx)[2])
        y1 == player.translation.y + vy
    IN IF y1 <= GROUND_LEVEL
       THEN [player EXCEPT !.velocity = Vec2(vx, 0),
                           !.translation = Vec2(x2, GROUND_LEVEL),
                           !.is_grounded = TRUE]
       ELSE [player EXCEPT !.velocity = Vec2(vx, vy),
                           !.translation = Vec2(x2, y1),
                           !.is_grounded = FALSE]

\* player_movement, for one player
MovePlayer(player, player_control) ==
    LET movement == Clamp(player_control.right - player_control.left, -1, 1)
        jump == player_control.jump_pressed
        vy1 == player.velocity.y - GRAVITY
        vx == movement * MOVE_SPEED
        jumps == jump /\ player.is_grounded
        vy2 == IF jumps THEN JUMP_VELOCITY ELSE vy1
        x1 == player.translation.x + vx
        y1 == player.translation.y + vy2
        left_bound == PlayerBounds(player.idx)[1]
        right_bound == PlayerBounds(player.idx)[2]
        x2 == Clamp(x1, left_bound, right_bound)
    IN IF y1 <= GROUND_LEVEL
       THEN [player EXCEPT !.velocity = Vec2(vx, 0),
                           !.translation = Vec2(x2, GROUND_LEVEL),
                           !.is_grounded = TRUE]
       ELSE [player EXCEPT !.velocity = Vec2(vx, vy2),
                           !.translation = Vec2(x2, y1),
                           !.is_grounded = FALSE]

player_movement(w) ==
    IF is_finished(w.match_state) THEN w
    ELSE [w EXCEPT !.players =
            [i \in PlayerIdx |->
                MovePlayer(w.players[i], get_control(w.match_inputs, w.players[i].idx))]]

\* (mutant) every reset serves from the right restart position
BallReset_right(reset_to_right) ==
    [translation |-> Vec2(RESET_X, 0), velocity |-> Vec2(0, GRAVITY * 30)]

\* Ball::reset
BallReset(reset_to_right) ==
    [translation |-> Vec2(IF reset_to_right THEN RESET_X ELSE -RESET_X, 0),
     velocity |-> Vec2(0, GRAVITY * 30)]

\* "Clamp ball speed" of ball_movement and ball_player_collision
ClampSpeed(velocity) ==
    LET speed == Length(velocity)
    IN IF speed > MAX_BALL_SPEED
       THEN Vec2(Quot(velocity.x * MAX_BALL_SPEED, speed),
                 Quot(velocity.y * MAX_BALL_SPEED, speed))
       ELSE velocity

\* (mutant) the ball's x is left where the integration put it
WallClamp_none(x) == x

\* (mutant) the side-wall branch clamps the ball's centre to the walls
WallClamp_center(x) == Clamp(x, LEFT_BOUNDARY, RIGHT_BOUNDARY)

\* the clamp of the side-wall branch of ball_movement
WallClamp(x) == Clamp(x, LEFT_BOUNDARY + BALL_RADIUS, RIGHT_BOUNDARY - BALL_RADIUS)

\* (mutant) the position is integrated with the velocity from before gravity
BallFlight_explicit(ball) ==
    LET vy1 == ball.velocity.y - GRAVITY
        x1 == ball.translation.x + ball.velocity.x
        y1 == ball.translation.y + ball.velocity.y
        wall == x1 - BALL_RADIUS <= LEFT_BOUNDARY \/ x1 + BALL_RADIUS >= RIGHT_BOUNDARY
        vx2 == IF wall THEN TimesBounce(-ball.velocity.x) ELSE ball.velocity.x
        x2 == IF wall THEN WallClamp(x1) ELSE x1
        ceiling == y1 + BALL_RADIUS >= CEILING
        vy2 == IF ceiling THEN TimesBounce(-vy1) ELSE vy1
        y2 == IF ceiling THEN CEILING - BALL_RADIUS ELSE y1
    IN [translation |-> Vec2(x2, y2), velocity |-> Vec2(vx2, vy2)]

\* ball_movement up to the ceiling step: gravity, integration, side walls, ceiling
BallFlight(ball) ==
    LET vy1 == ball.velocity.y - GRAVITY
        x1 == ball.translation.x + ball.velocity.x
        y1 == ball.translation.y + vy1
        wall == x1 - BALL_RADIUS <= LEFT_BOUNDARY \/ x1 + BALL_RADIUS >= RIGHT_BOUNDARY
        vx2 == IF wall THEN TimesBounce(-ball.velocity.x) ELSE ball.velocity.x
        x2 == IF wall THEN WallClamp(x1) ELSE x1
        ceiling == y1 + BALL_RADIUS >= CEILING
        vy2 == IF ceiling THEN TimesBounce(-vy1) ELSE vy1
        y2 == IF ceiling THEN CEILING - BALL_RADIUS ELSE y1
    IN [translation |-> Vec2(x2, y2), velocity |-> Vec2(vx2, vy2)]

\* (mutant) the floor test waits for the ball to sink a radius deeper
FloorCollision_deep(ball) == ball.translation.y + BALL_RADIUS <= GROUND_LEVEL - BALL_RADIUS

\* the floor test of ball_movement
FloorCollision(ball) == ball.translation.y + BALL_RADIUS <= GROUND_LEVEL

\* the body of ball_movement's loop, for the one ball
MoveBall(w) ==
    LET b == BallFlight(w.ball)
        reset_to_right == b.translation.x > CENTER_BOUNDARY
        scoring_player == IF reset_to_right THEN 0 ELSE 1
        scored == FloorCollision(b)
        b2 == IF scored THEN BallReset(reset_to_right) ELSE b
    IN [w EXCEPT
          !.match_state = IF scored
                          THEN increment_player_score(@, scoring_player)
                          ELSE @,
          !.ball = [b2 EXCEPT !.velocity = ClampSpeed(@)]]

\* (mutant) ball_movement without its early return
ball_movement_unguarded(w) == MoveBall(w)

ball_movement(w) ==
    IF is_finished(w.match_state) THEN w ELSE MoveBall(w)

\* the reference point of ball_player_collision: the top centre of the player
PlayerCenter(player) ==
    Vec2(player.translation.x, player.translation.y + PLAYER_HEIGHT \div 2)

\* "Check for collision" of ball_player_collision
Collides(ball, player) ==
    LET rel_x == ball.translation.x - PlayerCenter(player).x
        rel_y == ball.translation.y - PlayerCenter(player).y
    IN /\ Abs(rel_x) < PLAYER_WIDTH \div 2 + BALL_RADIUS
       /\ Abs(rel_y) < PLAYER_HEIGHT \div 2 + BALL_RADIUS

\* relative_x_pos * max_angle, in 1/AngleScale radian
BounceAngle(ball, player) ==
    LET rel_x == ball.translation.x - PlayerCenter(player).x
        relative == IF player.idx = 1 THEN -rel_x ELSE rel_x
    IN Quot(relative * FRAC_PI_4, PLAYER_WIDTH \div 2)

\* (mutant) the horizontal component is not mirrored back for player 1
HitVelocity_unmirrored(ball, player) ==
    LET bounce_angle == BounceAngle(ball, player)
        speed == Quot(MAX_BALL_SPEED * PLAYER_BOUNCE_FACTOR, 10)
        nx == Quot(Sin(bounce_angle) * speed, AngleScale)
        ny == Quot(Cos(bounce_angle) * speed, AngleScale)
    IN Vec2(nx + Quot(player.velocity.x, 2), ny + Quot(player.velocity.y, 2))

\* final_velocity of ball_player_collision
HitVelocity(ball, player) ==
    LET bounce_angle == BounceAngle(ball, player)
        speed == Quot(MAX_BALL_SPEED * PLAYER_BOUNCE_FACTOR, 10)
        nx == Quot(Sin(bounce_angle) * speed, AngleScale)
        ny == Quot(Cos(bounce_angle) * speed, AngleScale)
        new_x == IF player.idx = 1 THEN -nx ELSE nx
    IN Vec2(new_x + Quot(player.velocity.x, 2), ny + Quot(player.velocity.y, 2))

\* (mutant) the new position leaves out the ball's radius
HitPosition_noradius(ball, player) ==
    LET rel_x == ball.translation.x - PlayerCenter(player).x
    IN Vec2(PlayerCenter(player).x
              + Signum(rel_x) * (PLAYER_WIDTH \div 2 + 1 * Scale),
            PlayerCenter(player).y + PLAYER_HEIGHT \div 2 + 1 * Scale)

\* new_position of ball_player_collision
HitPosition(ball, player) ==
    LET rel_x == ball.translation.x - PlayerCenter(player).x
    IN Vec2(PlayerCenter(player).x
              + Signum(rel_x) * (PLAYER_WIDTH \div 2 + BALL_RADIUS + 1 * Scale),
            PlayerCenter(player).y + PLAYER_HEIGHT \div 2 + BALL_RADIUS + 1 * Scale)

\* (mutant) the new velocity is applied without the speed clamp
ApplyHit_unclamped(ball, new_velocity, new_position) ==
    [velocity |-> new_velocity,
     translation |-> [x |-> ball.translation.x, y |-> new_position.y]]

\* the ball after "Apply updates to balls": the new velocity, clamped, and
\* the y of the new position
ApplyHit(ball, new_velocity, new_position) ==
    [velocity |-> ClampSpeed(new_velocity),
     translation |-> Vec2(ball.translation.x, new_position.y)]

\* (mutant) a hit also lifts the player it hit off the ground
ball_player_collision_recoil(w) ==
    IF is_finished(w.match_state) THEN w
    ELSE IF \E i \in PlayerIdx : Collides(w.ball, w.players[i])
         THEN LET hit == CHOOSE i \in PlayerIdx : Collides(w.ball, w.players[i])
              IN [w EXCEPT !.ball =
                      ApplyHit(w.ball, HitVelocity(w.ball, w.players[hit]),
                               HitPosition(w.ball, w.players[hit])),
                    !.players[hit].is_grounded = FALSE]
         ELSE w

\* the players in the order entities.iter_with visits them
PlayerOrder == <<0, 1>>

ball_player_collision(w) ==
    IF is_finished(w.match_state) THEN w
    ELSE LET first == PlayerOrder[1]
             second == PlayerOrder[2]
             hit == IF Collides(w.ball, w.players[first]) THEN first
                    ELSE IF Collides(w.ball, w.players[second]) THEN second
                    ELSE -1
         IN IF hit = -1 THEN w
            ELSE [w EXCEPT !.ball =
                    ApplyHit(w.ball, HitVelocity(w.ball, w.players[hit]),
                             HitPosition(w.ball, w.players[hit]))]

\* "Check for collision with the net" of ball_net_collision
InNet(ball, net_position) ==
    /\ Abs(ball.translation.x - net_position.x) < NET_WIDTH \div 2 + BALL_RADIUS
    /\ ball.translation.y > net_position.y
    /\ ball.translation.y < net_position.y + NET_HEIGHT + BALL_RADIUS

\* (mutant) a top collision needs the ball's centre above the top of the net
NetTop_center(ball, net_position) ==
    ball.translation.y >= net_position.y + NET_HEIGHT

\* "Check if it's a top collision"
NetTop(ball, net_position) ==
    ball.translation.y >= net_position.y + NET_HEIGHT - BALL_RADIUS

\* (mutant) the snap of a top collision puts the ball's centre on the top of
\* the net
NetBounce_low(ball, net_position) ==
    IF NetTop(ball, net_position)
    THEN [velocity |-> Vec2(ball.velocity.x, TimesBounce(-ball.velocity.y)),
          translation |-> Vec2(ball.translation.x, net_position.y + NET_HEIGHT)]
    ELSE [velocity |-> Vec2(TimesBounce(-ball.velocity.x), ball.velocity.y),
          translation |->
             Vec2(IF ball.translation.x < net_position.x
                  THEN net_position.x - NET_WIDTH \div 2 - BALL_RADIUS - 1 * Scale
                  ELSE net_position.x + NET_WIDTH \div 2 + BALL_RADIUS + 1 * Scale,
                  ball.translation.y)]

\* the ball after a net collision
NetBounce(ball, net_position) ==
    IF NetTop(ball, net_position)
    THEN [velocity |-> Vec2(ball.velocity.x, TimesBounce(-ball.velocity.y)),
          translation |-> Vec2(ball.translation.x,
                               net_position.y + NET_HEIGHT + BALL_RADIUS)]
    ELSE [velocity |-> Vec2(TimesBounce(-ball.velocity.x), ball.velocity.y),
          translation |->
             Vec2(IF ball.translation.x < net_position.x
                  THEN net_position.x - NET_WIDTH \div 2 - BALL_RADIUS - 1 * Scale
                  ELSE net_position.x + NET_WIDTH \div 2 + BALL_RADIUS + 1 * Scale,
                  ball.translation.y)]

ball_net_collision(w) ==
    IF is_finished(w.match_state) THEN w
    ELSE IF InNet(w.ball, w.net) THEN [w EXCEPT !.ball = NetBounce(w.ball, w.net)]
    ELSE w

\* Color::rgba; the components 0.0 and 1.0 are the integers 0 and 1
ColorRgba(r, g, b, a) == [r |-> r, g |-> g, b |-> b, a |-> a]

\* The colour gameplay_startup gives the ball's path: opaque white
BallColor == ColorRgba(1, 1, 1, 1)

\* (mutant) hiding the ball of a finished match also starts the next match
update_ball_visibility_rematch(w) ==
    IF is_finished(w.match_state)
    THEN [w EXCEPT !.color = ColorRgba(w.color.r, w.color.g, w.color.b, 0),
                   !.match_state = MatchStateNew(w.match_state.target_score)]
    ELSE [w EXCEPT !.color = ColorRgba(w.color.r, w.color.g, w.color.b, 1)]

\* (mutant) the ball of a finished match is painted transparent black
update_ball_visibility_black(w) ==
    IF is_finished(w.match_state)
    THEN [w EXCEPT !.color = ColorRgba(0, 0, 0, 0)]
    ELSE [w EXCEPT !.color = ColorRgba(w.color.r, w.color.g, w.color.b, 1)]

\* update_ball_visibility: the colour of the ball's path is rebuilt from its
\* own red, green and blue, with alpha 0.0 in a finished match and 1.0 otherwise
update_ball_visibility(w) ==
    LET current_color == w.color
    IN [w EXCEPT !.color =
           IF is_finished(w.match_state)
           THEN ColorRgba(current_color.r, current_color.g, current_color.b, 0)
           ELSE ColorRgba(current_color.r, current_color.g, current_color.b, 1)]

\* (mutant) the loop of handle_escape does not stop at the first player
handle_escape_each(w) ==
    LET pressed == {player_idx \in PlayerIdx :
                      get_control(w.match_inputs, player_idx).esc_start_just_pressed}
    IN IF pressed # {}
       THEN [w EXCEPT !.session = [delete |-> TRUE,
                                   main_menus |-> @.main_menus + Cardinality(pressed)]]
       ELSE w

\* handle_escape
handle_escape(w) ==
    IF \E player_idx \in PlayerIdx :
          get_control(w.match_inputs, player_idx).esc_start_just_pressed
    THEN [w EXCEPT !.session = [delete |-> TRUE, main_menus |-> @.main_menus + 1]]
    ELSE w

\* The session runner's input step: each player's control is updated from
\* that player's dense input of the tick
update_controls(w, dense) ==
    [w EXCEPT !.match_inputs =
        [i \in PlayerIdx |-> update_from_dense(w.match_inputs[i], dense[i])]]

\* (mutant) the ball systems run before player_movement
Systems_ball_first ==
    <<"ball_movement", "ball_player_collision", "player_movement",
      "ball_net_collision", "update_ball_visibility", "handle_escape">>

\* The systems of the Update stage in the order GameplayPlugin::install adds them
Systems ==
    <<"player_movement", "ball_movement", "ball_player_collision",
      "ball_net_collision", "update_ball_visibility", "handle_escape">>

RunSystem(name, w) ==
    CASE name = "player_movement" -> player_movement(w)
      [] name = "ball_movement" -> ball_movement(w)
      [] name = "ball_player_collision" -> ball_player_collision(w)
      [] name = "ball_net_collision" -> ball_net_collision(w)
      [] name = "update_ball_visibility" -> update_ball_visibility(w)
      [] name = "handle_escape" -> handle_escape(w)

RECURSIVE RunStage(_, _)
\* The worlds of one tick from its k-th system on: w, then the world after
\* each system run on the one before
RunStage(k, w) ==
    IF k > Len(Systems) THEN <<w>>
    ELSE <<w>> \o RunStage(k + 1, RunSystem(Systems[k], w))

\* gameplay_startup and GameplayPlugin::start_gameplay_session
\* (mutant) player 0 starts 50 units to the left of the serve
StartWorld_apart ==
    [ball |-> BallReset(FALSE),
     players |-> [i \in PlayerIdx |->
                    [velocity |-> Vec2(0, 0),
                     translation |-> Vec2(IF i = 0 THEN -RESET_X - 50 * Scale ELSE RESET_X,
                                          GROUND_LEVEL),
                     is_grounded |-> FALSE,
                     idx |-> i]],
     match_state |-> MatchStateNew(TARGET_SCORE),
     match_inputs |-> [i \in PlayerIdx |-> PlayerControlDefault],
     net |-> Vec2(0, -259 * Scale),
     floor |-> Vec2(0, -365 * Scale),
     color |-> BallColor,
     session |-> [delete |-> FALSE, main_menus |-> 0]]

StartWorld ==
    [ball |-> BallReset(FALSE),
     players |-> [i \in PlayerIdx |->
                    [velocity |-> Vec2(0, 0),
                     translation |-> Vec2(IF i = 0 THEN -RESET_X ELSE RESET_X,
                                          GROUND_LEVEL),
                     is_grounded |-> FALSE,
                     idx |-> i]],
     match_state |-> MatchStateNew(TARGET_SCORE),
     match_inputs |-> [i \in PlayerIdx |-> PlayerControlDefault],
     net |-> Vec2(0, -259 * Scale),
     floor |-> Vec2(0, -365 * Scale),
     color |-> BallColor,
     session |-> [delete |-> FALSE, main_menus |-> 0]]

----------------------------------------------------------------------------
(* The state machine: one step per tick of the gameplay session *)

VARIABLES
    world,          \* the gameplay session's world
    tick,           \* the worlds of the last tick (history): the world before
                    \* it, after the input step, and after each system
    frame,          \* ticks run so far, counted up to ChangeUntil (history)
    input_changes   \* ticks so far whose dense inputs differ from the tick before

vars == <<world, tick, frame, input_changes>>

\* The input sequences explored: both players' inputs are neutral from the
\* start, change at most MaxInputChanges times, each time in a frame from
\* ChangeFrom to ChangeUntil - 1, and are held otherwise.
MaxInputChanges == 2
ChangeFrom == 64
ChangeUntil == 66

Init ==
    /\ world = StartWorld
    /\ tick = <<>>
    /\ frame = 0
    /\ input_changes = 0

held == [i \in PlayerIdx |-> DenseOf(world.match_inputs[i])]

\* One tick with the dense inputs dense[0], dense[1]
Step(dense) ==
    /\ ~world.session.delete
    /\ tick' = <<world>> \o RunStage(1, update_controls(world, dense))
    /\ world' = tick'[Len(tick')]
    /\ frame' = IF frame < ChangeUntil THEN frame + 1 ELSE frame

\* A tick in which both players hold their inputs
HoldTick ==
    /\ Step(held)
    /\ UNCHANGED input_changes

\* A tick in which some player's dense input changes
ChangeTick ==
    /\ input_changes < MaxInputChanges
    /\ frame >= ChangeFrom
    /\ frame < ChangeUntil
    /\ \E dense \in [PlayerIdx -> DenseInputs] :
          /\ dense # held
          /\ Step(dense)
    /\ input_changes' = input_changes + 1

Next == HoldTick \/ ChangeTick

Spec == Init /\ [][Next]_vars

----------------------------------------------------------------------------
(* Reading the last tick *)

\* Some tick has run
Ticked == tick # <<>>

\* The world before the last tick
TickPrev == tick[1]

\* The world the systems of the last tick started from (after the input step)
TickStart == tick[2]

\* The world after the k-th system of the last tick
AfterPlayerMovement == tick[3]
AfterBallMovement == tick[4]
AfterBallPlayerCollision == tick[5]
AfterBallNetCollision == tick[6]
AfterVisibility == tick[7]
AfterEscape == tick[8]

\* ball_movement of the last tick ran its floor branch
Scored == AfterBallMovement.match_state # AfterPlayerMovement.match_state

\* ball_movement of the last tick ran its side-wall branch
FlightX == AfterPlayerMovement.ball.translation.x + AfterPlayerMovement.ball.velocity.x
HitWall ==
    /\ ~is_finished(AfterPlayerMovement.match_state)
    /\ \/ FlightX - BALL_RADIUS <= LEFT_BOUNDARY
       \/ FlightX + BALL_RADIUS >= RIGHT_BOUNDARY

\* ball_movement of the last tick ran its ceiling branch
HitCeiling ==
    /\ ~is_finished(AfterPlayerMovement.match_state)
    /\ AfterPlayerMovement.ball.translation.y + AfterPlayerMovement.ball.velocity.y
         - GRAVITY + BALL_RADIUS >= CEILING

\* ball_player_collision of the last tick found a colliding player
HitPlayer(i) ==
    /\ ~is_finished(AfterBallMovement.match_state)
    /\ Collides(AfterBallMovement.ball, AfterBallMovement.players[i])
    /\ i = 1 => ~Collides(AfterBallMovement.ball, AfterBallMovement.players[0])

HitAnyPlayer == \E i \in PlayerIdx : HitPlayer(i)

\* ball_net_collision of the last tick found the ball in the net
HitNet ==
    /\ ~is_finished(AfterBallPlayerCollision.match_state)
    /\ InNet(AfterBallPlayerCollision.ball, AfterBallPlayerCollision.net)

HitNetTop == HitNet /\ NetTop(AfterBallPlayerCollision.ball, AfterBallPlayerCollision.net)

HitNetSide == HitNet /\ ~NetTop(AfterBallPlayerCollision.ball, AfterBallPlayerCollision.net)

\* The worlds of the last tick and the current one: every state the program
\* has been in since the last tick began
Worlds == {world} \cup {tick[k] : k \in 1..Len(tick)}

Scores(w) == w.match_state.player_scores

SpeedSquared(v) == v.x * v.x + v.y * v.y

----------------------------------------------------------------------------
(* A second start: the snapshot of the floor-scoring scenario, an           *)
(* in-progress match with scores [0,0], the ball at (50, GROUND_LEVEL + 5)  *)
(* with velocity (0, -5), stepped with the same input sequences.            *)

ScenarioWorld ==
    [StartWorld EXCEPT
        !.ball = [translation |-> Vec2(50 * Scale, GROUND_LEVEL + 5 * Scale),
                  velocity |-> Vec2(0, -5 * Scale)]]

InitScenario ==
    /\ world = ScenarioWorld
    /\ tick = <<>>
    /\ frame = 0
    /\ input_changes = 0

SpecScenario == InitScenario /\ [][Next]_vars

----------------------------------------------------------------------------
(* The match nobody plays: every tick holds the neutral inputs of the start.
   The session runner steps the session in every frame until the session is
   deleted, which is weak fairness of HoldTick; HoldTick is enabled exactly
   while the session is not marked for deletion, so the fairness condition is
   written without ENABLED. *)
SpecNeutral ==
    /\ Init
    /\ [][HoldTick]_vars
    /\ ([]<><<HoldTick>>_vars \/ []<>(world.session.delete))

(* Contacts: single ticks of the gameplay session that start with both players
   standing near the net and the ball about to meet a player, the net, a side
   wall or the floor *)

\* the X the standing players start from: at their inner bounds or 5 units
\* behind them
ContactPlayerX(i) ==
    IF i = 0
    THEN {PlayerBounds(0)[2] - 5 * Scale, PlayerBounds(0)[2]}
    ELSE {PlayerBounds(1)[1], PlayerBounds(1)[1] + 5 * Scale}

\* the balls: falling towards the centre line beside the net, falling into a
\* corner of the court, and falling straight down between net and wall
ContactBalls ==
    {[translation |-> Vec2(-15 * Scale, -215 * Scale), velocity |-> Vec2(2500, -900)],
     [translation |-> Vec2(15 * Scale, -215 * Scale), velocity |-> Vec2(-2500, -900)],
     [translation |-> Vec2(LEFT_BOUNDARY + BALL_RADIUS + 5 * Scale, -250 * Scale), velocity |-> Vec2(-2500, -900)],
     [translation |-> Vec2(RIGHT_BOUNDARY - BALL_RADIUS - 5 * Scale, -250 * Scale), velocity |-> Vec2(2500, -900)],
     [translation |-> Vec2(-100 * Scale, -215 * Scale), velocity |-> Vec2(0, -900)]}

InitContact ==
    /\ \E x0 \in ContactPlayerX(0), x1 \in ContactPlayerX(1), ball \in ContactBalls :
          world = [StartWorld EXCEPT
                      !.players[0].translation.x = x0,
                      !.players[0].is_grounded = TRUE,
                      !.players[1].translation.x = x1,
                      !.players[1].is_grounded = TRUE,
                      !.ball = ball]
    /\ tick = <<>>
    /\ frame = 0
    /\ input_changes = 0

\* The one tick of a contact, with any dense inputs
ContactTick ==
    /\ tick = <<>>
    /\ \E dense \in [PlayerIdx -> DenseInputs] : Step(dense)
    /\ UNCHANGED input_changes

NextContact == ContactTick

SpecContact == InitContact /\ [][NextContact]_vars

(* Leaving: single ticks of a gameplay session, in progress or finished, whose
   players may have been holding escape before the tick *)

\* the start world and the worlds of the two finished matches
EscapeWorlds ==
    {StartWorld} \cup
    {[StartWorld EXCEPT
         !.match_state.player_scores =
             [i \in PlayerIdx |-> IF i = winner THEN TARGET_SCORE ELSE 0],
         !.ball = BallReset(winner = 0),
         !.players[0].is_grounded = TRUE,
         !.players[1].is_grounded = TRUE,
         !.color.a = 0] : winner \in PlayerIdx}

InitEscape ==
    /\ \E w \in EscapeWorlds, esc \in [PlayerIdx -> BOOLEAN] :
          world = [w EXCEPT !.match_inputs =
                      [i \in PlayerIdx |->
                          [PlayerControlDefault EXCEPT !.esc_start_pressed = esc[i]]]]
    /\ tick = <<>>
    /\ frame = 0
    /\ input_changes = 0

SpecEscape == InitEscape /\ [][ContactTick]_vars

(* Packing a DensePlayerControl: world holds the arguments of                *)
(* DensePlayerControl::new, the value made from them and what the accessors *)
(* read back from it.                                                       *)
InitDense ==
    /\ world \in [args : [move_direction_u16 : U16, jump_pressed : BOOLEAN,
                          esc_start_pressed : BOOLEAN, enter_pressed : BOOLEAN],
                  dense : {0},
                  read : {<<>>}]
    /\ tick = <<>>
    /\ frame = 0
    /\ input_changes = 0

\* DensePlayerControl::new on the arguments
DenseNew ==
    /\ Len(tick) = 0
    /\ world' = [world EXCEPT !.dense =
                    DensePlayerControlNew(world.args.move_direction_u16,
                                          world.args.jump_pressed,
                                          world.args.esc_start_pressed,
                                          world.args.enter_pressed)]
    /\ tick' = <<world>>
    /\ UNCHANGED <<frame, input_changes>>

\* the accessors on the value made
DenseRead ==
    /\ Len(tick) = 1
    /\ world' = [world EXCEPT !.read =
                    [move_direction_u16 |-> dense_move_direction_u16(world.dense),
                     jump_pressed |-> dense_jump_pressed(world.dense),
                     esc_start_pressed |-> dense_esc_start_pressed(world.dense),
                     enter_pressed |-> dense_enter_pressed(world.dense)]]
    /\ tick' = tick \o <<world>>
    /\ UNCHANGED <<frame, input_changes>>

NextDense == DenseNew \/ DenseRead

SpecDense == InitDense /\ [][NextDense]_vars

----------------------------------------------------------------------------
(* Collecting input: world holds a PlayerInputCollector, run once a frame   *)
(* as handle_menu_input runs it, and a peer's PlayerControl of the same     *)
(* player, updated every frame from the dense input of the collector's      *)
(* current controls.  tick holds the world before the last frame.           *)

\* The events explored: keys of four controls, the left stick's X axis and
\* the two gamepad buttons the collector reads as jump and escape/start
KeyEventSet ==
    [control : {"left", "jump", "esc_start", "enter"}, pressed : BOOLEAN]

GamepadEventSet ==
    [axis : {"LeftStickX"}, value : {-10, 0, 10}]
        \cup [button : {"South", "Start"}, value : {0, 10}]

\* no event or one event
UpToOne(S) == {<<>>} \cup {<<e>> : e \in S}

InitInput ==
    /\ world = [collector |-> PlayerInputCollectorDefault,
                control |-> PlayerControlDefault]
    /\ tick = <<>>
    /\ frame = 0
    /\ input_changes = 0

\* One frame: the collector takes the frame's events, and the peer's control
\* is updated from the dense input of the collector's controls
InputTick ==
    /\ \E key_events \in UpToOne(KeyEventSet),
          gamepad_events \in UpToOne(GamepadEventSet) :
          LET collector == handle_menu_input(world.collector, key_events, gamepad_events)
          IN world' = [collector |-> collector,
                       control |-> update_from_dense(
                                      world.control,
                                      DenseOf(collector.current_controls))]
    /\ tick' = <<world>>
    /\ UNCHANGED <<frame, input_changes>>

NextInput == InputTick

SpecInput == InitInput /\ [][NextInput]_vars

----------------------------------------------------------------------------
(* player_movement on its own: a match whose MatchInputs hold any axis      *)
(* values from AxisValues, also ones no device produces, and any jump       *)
(* state, and are held while player_movement runs tick after tick.          *)

AxisValues == -1 .. 2

InitMove ==
    /\ \E left, right \in [PlayerIdx -> AxisValues], jump \in [PlayerIdx -> BOOLEAN] :
          world = [StartWorld EXCEPT !.match_inputs =
                      [i \in PlayerIdx |->
                          [PlayerControlDefault EXCEPT !.left = left[i],
                                                       !.right = right[i],
                                                       !.jump_pressed = jump[i]]]]
    /\ tick = <<>>
    /\ frame = 0
    /\ input_changes = 0

\* One run of player_movement
MoveTick ==
    /\ world' = player_movement(world)
    /\ tick' = <<world, world, world'>>
    /\ UNCHANGED <<frame, input_changes>>

NextMove == MoveTick

SpecMove == InitMove /\ [][NextMove]_vars

----------------------------------------------------------------------------
(* The main-menu session (menu.rs, networking.rs).  world is a record:       *)
(*   collector: the PlayerInputCollector   menu_data: MenuData               *)
(*   network_state: [status]   session: [delete, gameplay], gameplay the     *)
(*   MatchStates of the gameplay sessions started   exited: process::exit    *)
(*   was called   searches: calls of online::start_search_for_game in the    *)
(*   last tick   env: what the tick was given, time.delta() in ms and        *)
(*   whether online::update_search_for_game has a socket to return           *)
(*   opener: the select buttons (jump, enter) held without a break since     *)
(*   their press opened OnlinePlayConfig (a record of the run, not a         *)
(*   resource of the session)                                                *)
(***************************************************************************)

\* MenuData::default and menu_startup
MenuDataDefault ==
    [state |-> "MainMenu", selected_option |-> 0, scroll_timer |-> 0,
     input_delay_frames |-> 2]

\* (mutant) the input delay is raised without the upper limit
MenuNavigation_nolimit(menu_data, player_control, delta) ==
    LET timed == [menu_data EXCEPT !.scroll_timer = Max(@ - delta, 0)]
    IN IF timed.scroll_timer # 0 THEN timed
       ELSE IF timed.state = "MainMenu"
       THEN IF player_control.up_pressed
            THEN [timed EXCEPT !.selected_option = Max(@ - 1, 0),
                               !.scroll_timer = 200]
            ELSE IF player_control.down_pressed
            THEN [timed EXCEPT !.selected_option = IF @ + 1 < 1 THEN @ + 1 ELSE 1,
                               !.scroll_timer = 200]
            ELSE timed
       ELSE IF player_control.left_pressed
            THEN [timed EXCEPT !.input_delay_frames = Max(Max(@ - 1, 0), 1),
                               !.scroll_timer = 200]
            ELSE IF player_control.right_pressed
            THEN [timed EXCEPT !.input_delay_frames = @ + 1,
                               !.scroll_timer = 200]
            ELSE timed

\* "Handle menu navigation with delay" of menu_selection_system
MenuNavigation(menu_data, player_control, delta) ==
    LET timed == [menu_data EXCEPT !.scroll_timer = Max(@ - delta, 0)]
    IN IF timed.scroll_timer # 0 THEN timed
       ELSE IF timed.state = "MainMenu"
       THEN IF player_control.up_pressed
            THEN [timed EXCEPT !.selected_option = Max(@ - 1, 0),
                               !.scroll_timer = 200]
            ELSE IF player_control.down_pressed
            THEN [timed EXCEPT !.selected_option = IF @ + 1 < 1 THEN @ + 1 ELSE 1,
                               !.scroll_timer = 200]
            ELSE timed
       ELSE IF player_control.left_pressed
            THEN [timed EXCEPT !.input_delay_frames = Max(Max(@ - 1, 0), 1),
                               !.scroll_timer = 200]
            ELSE IF player_control.right_pressed
            THEN [timed EXCEPT !.input_delay_frames = IF @ + 1 < 60 THEN @ + 1 ELSE 60,
                               !.scroll_timer = 200]
            ELSE timed

\* (mutant) leaving matchmaking returns to the main menu but keeps the status
MenuSelection_keep(w, player_control) ==
    IF w.network_state.status = "Idle"
    THEN IF player_control.jump_just_pressed \/ player_control.enter_just_pressed
         THEN IF w.menu_data.state = "MainMenu"
              THEN IF w.menu_data.selected_option = 0
                   THEN [w EXCEPT !.menu_data.state = "OnlinePlayConfig",
                                  !.menu_data.selected_option = 0]
                   ELSE IF w.menu_data.selected_option = 1
                   THEN [w EXCEPT !.exited = TRUE]
                   ELSE w
              ELSE [w EXCEPT !.network_state.status = "Searching"]
         ELSE IF player_control.esc_start_pressed
              THEN IF w.menu_data.state = "OnlinePlayConfig"
                   THEN [w EXCEPT !.menu_data.state = "MainMenu",
                                  !.menu_data.selected_option = 0]
                   ELSE w
              ELSE w
    ELSE IF player_control.esc_start_pressed
         THEN [w EXCEPT !.menu_data.state = "MainMenu"]
         ELSE w

\* "Handle menu selection if we're not searching for an online match" and
\* "allow exiting matchmaking" of menu_selection_system
MenuSelection(w, player_control) ==
    IF w.network_state.status = "Idle"
    THEN IF player_control.jump_just_pressed \/ player_control.enter_just_pressed
         THEN IF w.menu_data.state = "MainMenu"
              THEN IF w.menu_data.selected_option = 0
                   THEN [w EXCEPT !.menu_data.state = "OnlinePlayConfig",
                                  !.menu_data.selected_option = 0]
                   ELSE IF w.menu_data.selected_option = 1
                   THEN [w EXCEPT !.exited = TRUE]
                   ELSE w
              ELSE [w EXCEPT !.network_state.status = "Searching"]
         ELSE IF player_control.esc_start_pressed
              THEN IF w.menu_data.state = "OnlinePlayConfig"
                   THEN [w EXCEPT !.menu_data.state = "MainMenu",
                                  !.menu_data.selected_option = 0]
                   ELSE w
              ELSE w
    ELSE IF player_control.esc_start_pressed
         THEN [w EXCEPT !.network_state.status = "Idle",
                        !.menu_data.state = "MainMenu"]
         ELSE w

menu_selection_system(w) ==
    LET player_control == w.collector.current_controls
    IN MenuSelection([w EXCEPT !.menu_data =
                          MenuNavigation(@, player_control, w.env.delta)],
                     player_control)

\* (mutant) the new session's MatchState is created without a target
start_gameplay_session_notarget(session) ==
    [session EXCEPT !.gameplay = Append(@, MatchStateNew(0))]

\* GameplayPlugin::start_gameplay_session: the new session's MatchState
start_gameplay_session(session) ==
    [session EXCEPT !.gameplay = Append(@, MatchStateNew(TARGET_SCORE))]

\* (mutant) the Searching branch starts the search and stays in Searching
handle_online_menu_matchmaking_linger(w) ==
    CASE w.network_state.status = "Searching" ->
            [w EXCEPT !.searches = @ + 1]
      [] w.network_state.status = "WaitingForPlayers" ->
            IF w.env.socket
            THEN LET found == [w EXCEPT !.network_state.status = "MatchFound"]
                     reset == [found EXCEPT !.network_state.status = "Idle"]
                 IN [reset EXCEPT !.session =
                        start_gameplay_session([@ EXCEPT !.delete = TRUE])]
            ELSE w
      [] w.network_state.status = "MatchFound" -> w
      [] OTHER -> [w EXCEPT !.network_state.status = "Idle"]

handle_online_menu_matchmaking(w) ==
    CASE w.network_state.status = "Searching" ->
            [w EXCEPT !.searches = @ + 1,
                      !.network_state.status = "WaitingForPlayers"]
      [] w.network_state.status = "WaitingForPlayers" ->
            IF w.env.socket
            THEN LET found == [w EXCEPT !.network_state.status = "MatchFound"]
                     reset == [found EXCEPT !.network_state.status = "Idle"]
                 IN [reset EXCEPT !.session =
                        start_gameplay_session([@ EXCEPT !.delete = TRUE])]
            ELSE w
      [] w.network_state.status = "MatchFound" -> w
      [] OTHER -> [w EXCEPT !.network_state.status = "Idle"]

\* menu_plugin: the resources of a new main-menu session
MenuStartWorld ==
    [collector |-> PlayerInputCollectorDefault,
     menu_data |-> MenuDataDefault,
     network_state |-> [status |-> "Idle"],
     session |-> [delete |-> FALSE, gameplay |-> <<>>],
     exited |-> FALSE,
     searches |-> 0,
     env |-> [delta |-> 0, socket |-> FALSE],
     opener |-> {}]

\* The systems menu_plugin adds to the Update stage that write state, in
\* order (menu_draw_system only reads)
MenuSystems == <<"handle_menu_input", "menu_selection_system",
                 "handle_online_menu_matchmaking">>

(* The environment of a menu session: key events of the default mapping, at
   most one per frame; frames of the lengths in Deltas (ms); a matchmaker
   that may or may not have a socket in a tick *)
Deltas == {100, 200}

MenuControls == {"up", "down", "left", "right", "jump", "enter", "esc_start"}

Held(c) ==
    {k \in MenuControls :
        \/ k = "up" /\ c.up_pressed
        \/ k = "down" /\ c.down_pressed
        \/ k = "left" /\ c.left_pressed
        \/ k = "right" /\ c.right_pressed
        \/ k = "jump" /\ c.jump_pressed
        \/ k = "enter" /\ c.enter_pressed
        \/ k = "esc_start" /\ c.esc_start_pressed}

InitMenu ==
    /\ world = MenuStartWorld
    /\ tick = <<>>
    /\ frame = 0
    /\ input_changes = 0

\* One frame of the menu session with an event of one of the controls or
\* none, at most max_held controls held: tick' is the world before the frame,
\* the world the systems start from, and the world after each system of
\* MenuSystems
MenuFrame(controls, max_held, sockets) ==
    /\ ~world.session.delete
    /\ ~world.exited
    /\ \E key_events \in UpToOne([control : controls, pressed : BOOLEAN]), delta \in Deltas, socket \in sockets :
          LET start == [world EXCEPT !.searches = 0,
                                     !.env = [delta |-> delta, socket |-> socket]]
              input == [start EXCEPT !.collector = handle_menu_input(@, key_events, <<>>)]
              selected == menu_selection_system(input)
              held_now == Held(input.collector.current_controls)
              opener == IF selected.menu_data.state # "OnlinePlayConfig" THEN {}
                        ELSE IF input.menu_data.state = "MainMenu"
                        THEN held_now \cap {"jump", "enter"}
                        ELSE world.opener \cap held_now
              matched == [handle_online_menu_matchmaking(selected) EXCEPT !.opener = opener]
          IN /\ Cardinality(Held(input.collector.current_controls)) <= max_held
             /\ tick' = <<world, start, input, selected, matched>>
             /\ world' = matched
    /\ UNCHANGED <<frame, input_changes>>

\* Navigation: the direction keys and jump, one key at a time, no opponent
NavHeld == 1

MenuTick == MenuFrame({"up", "down", "left", "right", "jump"}, NavHeld, {FALSE})

NextMenu == MenuTick

SpecMenu == InitMenu /\ [][NextMenu]_vars

\* Matchmaking: jump, enter and escape, up to two of them held at once, and a
\* matchmaker that may find the opponent in any tick
MatchHeld == 2

MatchmakingTick == MenuFrame({"jump", "enter", "esc_start"}, MatchHeld, BOOLEAN)

NextMatchmaking == MatchmakingTick

SpecMatchmaking == InitMenu /\ [][NextMatchmaking]_vars

\* Readers of the last frame of the menu session
MenuPrev == tick[1]
AfterMenuInput == tick[3]
AfterMenuSelection == tick[4]
AfterMatchmaking == tick[5]
Status(w) == w.network_state.status

----------------------------------------------------------------------------
(* Claims *)

\* C2: at the end of every tick the magnitude of the ball's velocity is at
\* most MAX_BALL_SPEED (also after a reset, a player hit and a net bounce).
C2_SpeedBound ==
    SpeedSquared(world.ball.velocity) <= MAX_BALL_SPEED * MAX_BALL_SPEED

\* C2 witness: a tick in which a player hit computed a velocity above the
\* bound and the ball ends the tick at exactly the bound.
C2_Witness ==
    /\ Ticked
    /\ \E i \in PlayerIdx :
          /\ HitPlayer(i)
          /\ Length(HitVelocity(AfterBallMovement.ball, AfterBallMovement.players[i]))
                > MAX_BALL_SPEED
    /\ Length(world.ball.velocity) = MAX_BALL_SPEED

\* C3: a tick that starts in a Finished match leaves both scores, the ball's
\* position and velocity, and both players' positions, velocities and
\* is_grounded flags unchanged, whatever the inputs.
C3_WinExclusivity ==
    (Ticked /\ is_finished(TickPrev.match_state)) =>
        /\ Scores(world) = Scores(TickPrev)
        /\ world.ball = TickPrev.ball
        /\ world.players = TickPrev.players

\* C3 witness: a tick run in a Finished match while a player holds a
\* direction and a player holds jump.
C3_Witness ==
    /\ Ticked
    /\ is_finished(TickPrev.match_state)
    /\ \E i \in PlayerIdx : TickStart.match_inputs[i].left + TickStart.match_inputs[i].right > 0
    /\ \E i \in PlayerIdx : TickStart.match_inputs[i].jump_pressed

\* C4: across every tick each score stays or grows by exactly 1, and at most
\* one of the two scores changes.
C4_ScoreMonotonic ==
    Ticked =>
        LET d0 == Scores(world)[0] - Scores(TickPrev)[0]
            d1 == Scores(world)[1] - Scores(TickPrev)[1]
        IN d0 \in {0, 1} /\ d1 \in {0, 1} /\ d0 + d1 <= 1

\* C4 witness: a tick whose floor branch ran and raised player 0's score by 1.
C4_Witness ==
    /\ Ticked
    /\ Scored
    /\ Scores(world)[0] = Scores(TickPrev)[0] + 1

\* C5: in every reachable state no score exceeds target_score, at most one
\* score equals it, is_finished() holds exactly when some score has reached
\* it, and in an in-progress match both scores are below it.
C5_MatchStateInvariant ==
    \A w \in Worlds :
        LET ms == w.match_state
        IN /\ \A i \in PlayerIdx : ms.player_scores[i] <= ms.target_score
           /\ ~(\A i \in PlayerIdx : ms.player_scores[i] = ms.target_score)
           /\ is_finished(ms) <=> (\E i \in PlayerIdx : ms.player_scores[i] >= ms.target_score)
           /\ ~is_finished(ms) => (\A i \in PlayerIdx : ms.player_scores[i] < ms.target_score)

\* C5 witness: a Finished match whose winner stands at exactly the target.
C5_Witness ==
    /\ is_finished(world.match_state)
    /\ \E i \in PlayerIdx : Scores(world)[i] = world.match_state.target_score

\* C6: MatchState changes only in ball_movement, and there only in a tick
\* whose ball crossed the floor line; the input step and the other five
\* systems leave it alone; a Finished match is still Finished after a tick.
C6_FinishOnlyByScoring ==
    Ticked =>
        /\ TickStart.match_state = TickPrev.match_state
        /\ AfterPlayerMovement.match_state = TickStart.match_state
        /\ AfterBallMovement.match_state # AfterPlayerMovement.match_state
              => FloorCollision(BallFlight(AfterPlayerMovement.ball))
        /\ AfterBallPlayerCollision.match_state = AfterBallMovement.match_state
        /\ AfterBallNetCollision.match_state = AfterBallPlayerCollision.match_state
        /\ AfterVisibility.match_state = AfterBallNetCollision.match_state
        /\ AfterEscape.match_state = AfterVisibility.match_state
        /\ is_finished(TickPrev.match_state) => is_finished(world.match_state)

\* C6 witness: the tick in which the match goes from in progress to Finished.
C6_Witness ==
    /\ Ticked
    /\ ~is_finished(TickPrev.match_state)
    /\ is_finished(world.match_state)
    /\ Scored

\* C7: at the end of every tick the ball's centre X lies in
\* [LEFT_BOUNDARY + BALL_RADIUS, RIGHT_BOUNDARY - BALL_RADIUS].
C7_BallXContained ==
    /\ world.ball.translation.x >= LEFT_BOUNDARY + BALL_RADIUS
    /\ world.ball.translation.x <= RIGHT_BOUNDARY - BALL_RADIUS

\* C7 witness: a tick whose integration carried the ball's edge beyond a side
\* wall and which ends with the ball on the containment limit.
C7_Witness ==
    /\ Ticked
    /\ HitWall
    /\ \/ FlightX < LEFT_BOUNDARY + BALL_RADIUS
       \/ FlightX > RIGHT_BOUNDARY - BALL_RADIUS
    /\ world.ball.translation.x \in {LEFT_BOUNDARY + BALL_RADIUS, RIGHT_BOUNDARY - BALL_RADIUS}

\* C8: in every reachable state player 0's X is within
\* [LEFT_BOUNDARY + PLAYER_WIDTH/2, CENTER_BOUNDARY - NET_WIDTH - PLAYER_WIDTH/2]
\* and player 1's within
\* [CENTER_BOUNDARY + NET_WIDTH + PLAYER_WIDTH/2, RIGHT_BOUNDARY - PLAYER_WIDTH/2].
C8_PlayerXContained ==
    \A w \in Worlds :
        /\ w.players[0].translation.x >= LEFT_BOUNDARY + PLAYER_WIDTH \div 2
        /\ w.players[0].translation.x <= CENTER_BOUNDARY - NET_WIDTH - PLAYER_WIDTH \div 2
        /\ w.players[1].translation.x >= CENTER_BOUNDARY + NET_WIDTH + PLAYER_WIDTH \div 2
        /\ w.players[1].translation.x <= RIGHT_BOUNDARY - PLAYER_WIDTH \div 2

\* C8 witness: a player walking toward the net in a tick whose step carried it
\* beyond the inner limit of its half and which left it on that limit.
C8_Witness ==
    /\ Ticked
    /\ \E i \in PlayerIdx :
          /\ AfterPlayerMovement.players[i].velocity.x = (IF i = 0 THEN 1 ELSE -1) * MOVE_SPEED
          /\ Abs(TickStart.players[i].translation.x + AfterPlayerMovement.players[i].velocity.x)
                < NET_WIDTH + PLAYER_WIDTH \div 2
          /\ Abs(world.players[i].translation.x) = NET_WIDTH + PLAYER_WIDTH \div 2

\* C9: from the scenario snapshot one tick makes player 0 score: the scores
\* become [1,0] and the ball is at (290, 0) with velocity (0, GRAVITY*30).
C9_FloorScenario ==
    (Ticked /\ TickPrev = ScenarioWorld) =>
        /\ Scores(world)[0] = 1
        /\ Scores(world)[1] = 0
        /\ world.ball = BallReset(TRUE)

\* C10: in an in-progress match ball_movement scores exactly in the ticks in
\* which, after gravity, integration and the wall and ceiling steps, the
\* ball's bottom edge (centre Y - BALL_RADIUS) has crossed GROUND_LEVEL.
C10_FloorTrigger ==
    (Ticked /\ ~is_finished(AfterPlayerMovement.match_state)) =>
        (Scored <=>
            BallFlight(AfterPlayerMovement.ball).translation.y - BALL_RADIUS
                <= GROUND_LEVEL)

\* C11: whenever ball_movement's floor collision fires, a ball whose X (after
\* the wall clamp) is strictly right of CENTER_BOUNDARY gives player 0 one
\* point and is reset to (290, 0); otherwise player 1 gets the point and the
\* ball is reset to (-290, 0); either way the ball leaves ball_movement with
\* velocity exactly (0, GRAVITY * 30).
C11_ScoringSide ==
    (/\ Ticked
     /\ ~is_finished(AfterPlayerMovement.match_state)
     /\ FloorCollision(BallFlight(AfterPlayerMovement.ball))) =>
        LET x == BallFlight(AfterPlayerMovement.ball).translation.x
            before == Scores(AfterPlayerMovement)
            after == Scores(AfterBallMovement)
        IN /\ x > CENTER_BOUNDARY =>
                /\ after[0] = before[0] + 1
                /\ after[1] = before[1]
                /\ AfterBallMovement.ball.translation = Vec2(290 * Scale, 0)
           /\ x <= CENTER_BOUNDARY =>
                /\ after[1] = before[1] + 1
                /\ after[0] = before[0]
                /\ AfterBallMovement.ball.translation = Vec2(-290 * Scale, 0)
           /\ AfterBallMovement.ball.velocity = Vec2(0, GRAVITY * 30)

\* C11 witness: a floor collision on the left of the centre line: player 1
\* has the point and the ball is at the left restart position.
C11_Witness ==
    /\ Ticked
    /\ ~is_finished(AfterPlayerMovement.match_state)
    /\ FloorCollision(BallFlight(AfterPlayerMovement.ball))
    /\ BallFlight(AfterPlayerMovement.ball).translation.x <= CENTER_BOUNDARY
    /\ Scores(AfterBallMovement)[1] = Scores(AfterPlayerMovement)[1] + 1
    /\ AfterBallMovement.ball.translation.x = -RESET_X

\* the player i of the last tick started a jump in player_movement
StartedJump(i) ==
    /\ ~is_finished(TickStart.match_state)
    /\ TickStart.players[i].is_grounded
    /\ ~AfterPlayerMovement.players[i].is_grounded
    /\ AfterPlayerMovement.players[i].velocity.y = JUMP_VELOCITY

\* C12: in an in-progress match a player that is grounded when
\* player_movement starts and whose control has jump_just_pressed ends the
\* tick with velocity.y = JUMP_VELOCITY, Y = GROUND_LEVEL + JUMP_VELOCITY and
\* is_grounded = false.
C12_JumpStart ==
    (Ticked /\ ~is_finished(TickStart.match_state)) =>
        \A i \in PlayerIdx :
            (/\ TickStart.players[i].is_grounded
             /\ get_control(TickStart.match_inputs, i).jump_just_pressed) =>
                /\ world.players[i].velocity.y = JUMP_VELOCITY
                /\ world.players[i].translation.y = GROUND_LEVEL + JUMP_VELOCITY
                /\ ~world.players[i].is_grounded

\* C12 witness: a grounded player whose jump input rose in the last tick,
\* now in the air.
C12_Witness ==
    /\ Ticked
    /\ ~is_finished(TickStart.match_state)
    /\ \E i \in PlayerIdx :
          /\ TickStart.players[i].is_grounded
          /\ get_control(TickStart.match_inputs, i).jump_just_pressed
          /\ ~world.players[i].is_grounded

\* C13: a jump starts only in a tick in which the player's jump input went
\* from not pressed to pressed; a jump input that was already pressed in the
\* tick before starts no jump, also through a landing.
C13_JumpEdgeTriggered ==
    Ticked =>
        \A i \in PlayerIdx :
            StartedJump(i) =>
                /\ ~get_control(TickPrev.match_inputs, i).jump_pressed
                /\ get_control(TickStart.match_inputs, i).jump_pressed

\* C14: in every tick the stages run once each in the order player_movement,
\* ball_movement, ball_player_collision, ball_net_collision,
\* update_ball_visibility: each starts from the world the one before it left,
\* so a player hit is tested against the players' positions of the same tick
\* and a net bounce is applied to the ball a player hit of the same tick left.
C14_StageOrder ==
    Ticked =>
        /\ Len(tick) = 8
        /\ AfterPlayerMovement = player_movement(TickStart)
        /\ AfterBallMovement = ball_movement(AfterPlayerMovement)
        /\ AfterBallPlayerCollision = ball_player_collision(AfterBallMovement)
        /\ AfterBallNetCollision = ball_net_collision(AfterBallPlayerCollision)
        /\ AfterVisibility = update_ball_visibility(AfterBallNetCollision)
        /\ world = handle_escape(AfterVisibility)

\* C14 witness: a tick in which a player hit the ball only where
\* player_movement of the same tick had put that player, the ball being out
\* of reach of the player's position at the start of the tick.
C14_Witness ==
    /\ Ticked
    /\ \E i \in PlayerIdx :
          /\ HitPlayer(i)
          /\ ~Collides(AfterBallMovement.ball, TickStart.players[i])
          /\ AfterBallPlayerCollision.ball # AfterBallMovement.ball

\* C15: for every movement code and every jump, esc_start and enter,
\* DensePlayerControl::new makes a value whose bits 19..31 are zero, whose
\* bits 16, 17, 18 are jump, esc_start, enter and whose low 16 bits are the
\* movement code, and the three accessors return the booleans passed in,
\* whatever the movement bits.
C15_DenseRoundTrip ==
    /\ Len(tick) >= 1 =>
          /\ world.dense \in 0 .. (2^19 - 1)
          /\ (world.dense \div 2^16) % 2 = (IF world.args.jump_pressed THEN 1 ELSE 0)
          /\ (world.dense \div 2^17) % 2 = (IF world.args.esc_start_pressed THEN 1 ELSE 0)
          /\ (world.dense \div 2^18) % 2 = (IF world.args.enter_pressed THEN 1 ELSE 0)
          /\ world.dense % 2^16 = world.args.move_direction_u16
    /\ Len(tick) = 2 =>
          /\ world.read.jump_pressed = world.args.jump_pressed
          /\ world.read.esc_start_pressed = world.args.esc_start_pressed
          /\ world.read.enter_pressed = world.args.enter_pressed

\* C15 witness: jump and enter down, escape up and all sixteen movement bits
\* set, packed and read back as true, false, true.
C15_Witness ==
    /\ Len(tick) = 2
    /\ world.args.move_direction_u16 = 2^16 - 1
    /\ world.args.jump_pressed /\ ~world.args.esc_start_pressed /\ world.args.enter_pressed
    /\ world.read.jump_pressed /\ ~world.read.esc_start_pressed /\ world.read.enter_pressed

\* one control's just-pressed flags are the edges from the control before
EdgeFlags(before, after) ==
    /\ after.jump_just_pressed <=> (after.jump_pressed /\ ~before.jump_pressed)
    /\ after.esc_start_just_pressed
          <=> (after.esc_start_pressed /\ ~before.esc_start_pressed)
    /\ after.enter_just_pressed <=> (after.enter_pressed /\ ~before.enter_pressed)

\* C16: for jump, esc_start and enter, a frame's *_just_pressed flag is true
\* exactly when the button is pressed in that frame's control and was not
\* pressed in the control of the frame before, both in the collector's
\* controls and in a control updated from the dense input.
C16_EdgeTriggered ==
    Ticked =>
        /\ EdgeFlags(TickPrev.collector.current_controls,
                     world.collector.current_controls)
        /\ EdgeFlags(TickPrev.control, world.control)

\* C16 witness: the second frame of a held jump: pressed in both frames, in
\* the collector and at the peer, just pressed in the first and not now.
C16_Witness ==
    /\ Ticked
    /\ TickPrev.collector.current_controls.jump_just_pressed
    /\ TickPrev.control.jump_just_pressed
    /\ world.collector.current_controls.jump_pressed
    /\ world.control.jump_pressed
    /\ ~world.collector.current_controls.jump_just_pressed
    /\ ~world.control.jump_just_pressed

\* C17: after every player_movement of an in-progress match each player's Y
\* is at least GROUND_LEVEL, is_grounded holds exactly when Y = GROUND_LEVEL,
\* a grounded player has velocity.y = 0, and a player that was airborne when
\* the tick began either landed or kept falling under gravity: it started no
\* jump.
C17_GroundInvariant ==
    (Ticked /\ ~is_finished(TickStart.match_state)) =>
        \A i \in PlayerIdx :
            LET before == TickStart.players[i]
                after == AfterPlayerMovement.players[i]
            IN /\ after.translation.y >= GROUND_LEVEL
               /\ after.is_grounded <=> (after.translation.y = GROUND_LEVEL)
               /\ after.is_grounded => after.velocity.y = 0
               /\ (~before.is_grounded /\ ~after.is_grounded) =>
                      after.velocity.y = before.velocity.y - GRAVITY

\* C17 witness: a player in the air with jump held down through a tick of an
\* in-progress match, still in the air and slower by GRAVITY.
C17_Witness ==
    /\ Ticked
    /\ ~is_finished(TickStart.match_state)
    /\ \E i \in PlayerIdx :
          /\ ~TickStart.players[i].is_grounded
          /\ TickStart.players[i].translation.y > GROUND_LEVEL
          /\ get_control(TickStart.match_inputs, i).jump_pressed
          /\ ~AfterPlayerMovement.players[i].is_grounded
          /\ AfterPlayerMovement.players[i].velocity.y
                = TickStart.players[i].velocity.y - GRAVITY

\* C18: after player_movement each player's velocity.x is
\* clamp(right - left, -1, 1) * MOVE_SPEED of that player's own control, so
\* its magnitude is at most MOVE_SPEED for every axis value, also outside
\* [0,1], and left and right pressed together give velocity.x = 0.
C18_HorizontalVelocity ==
    (Ticked /\ ~is_finished(TickStart.match_state)) =>
        \A i \in PlayerIdx :
            LET control == TickStart.match_inputs[i]
                vx == AfterPlayerMovement.players[i].velocity.x
                axis == control.right - control.left
            IN /\ vx = (IF axis < -1 THEN -1 ELSE IF axis > 1 THEN 1 ELSE axis) * MOVE_SPEED
               /\ vx >= -MOVE_SPEED
               /\ vx <= MOVE_SPEED
               /\ (control.left = 1 /\ control.right = 1) => vx = 0

\* C18 witness: player 0 with both axes outside [0,1] (right 2, left -1)
\* moving right at MOVE_SPEED while player 1, left and right pressed
\* together, has no horizontal velocity.
C18_Witness ==
    /\ Ticked
    /\ TickStart.match_inputs[0].right = 2
    /\ TickStart.match_inputs[0].left = -1
    /\ TickStart.match_inputs[1].right = 1
    /\ TickStart.match_inputs[1].left = 1
    /\ AfterPlayerMovement.players[0].velocity.x = MOVE_SPEED
    /\ AfterPlayerMovement.players[1].velocity.x = 0

\* C19: player_movement clamps player 0's X to
\* [LEFT_BOUNDARY + PLAYER_WIDTH/2, CENTER_BOUNDARY - NET_WIDTH/2 - PLAYER_WIDTH/2]
\* and player 1's to the mirrored interval
\* [CENTER_BOUNDARY + NET_WIDTH/2 + PLAYER_WIDTH/2, RIGHT_BOUNDARY - PLAYER_WIDTH/2],
\* so a player 0 that keeps moving right comes to rest on that upper limit.
C19_ClampBounds ==
    (Ticked /\ ~is_finished(TickStart.match_state)) =>
        \A i \in PlayerIdx :
            LET x == TickStart.players[i].translation.x
                        + AfterPlayerMovement.players[i].velocity.x
                lo == IF i = 0 THEN LEFT_BOUNDARY + PLAYER_WIDTH \div 2
                      ELSE CENTER_BOUNDARY + NET_WIDTH \div 2 + PLAYER_WIDTH \div 2
                hi == IF i = 0 THEN CENTER_BOUNDARY - NET_WIDTH \div 2 - PLAYER_WIDTH \div 2
                      ELSE RIGHT_BOUNDARY - PLAYER_WIDTH \div 2
            IN AfterPlayerMovement.players[i].translation.x
                  = (IF x < lo THEN lo ELSE IF x > hi THEN hi ELSE x)

\* C20: in an in-progress match a ball that ball_net_collision finds inside
\* the net region (|x - net_x| < NET_WIDTH/2 + BALL_RADIUS and
\* net_y < y < net_y + NET_HEIGHT + BALL_RADIUS) is resolved one way: at or
\* above net_y + NET_HEIGHT - BALL_RADIUS, velocity.y is reflected and scaled
\* by BALL_BOUNCE_FACTOR and Y is set to net_y + NET_HEIGHT + BALL_RADIUS, X
\* and velocity.x staying; below that, velocity.x is reflected and scaled and
\* X is set 1 beyond the net's edge plus BALL_RADIUS on the side of the
\* ball's centre, Y and velocity.y staying.  A ball outside the region is
\* left as it is.
C20_NetResolution ==
    (Ticked /\ ~is_finished(AfterBallPlayerCollision.match_state)) =>
        LET b == AfterBallPlayerCollision.ball
            a == AfterBallNetCollision.ball
            net == AfterBallPlayerCollision.net
            inside == /\ Abs(b.translation.x - net.x) < NET_WIDTH \div 2 + BALL_RADIUS
                      /\ b.translation.y > net.y
                      /\ b.translation.y < net.y + NET_HEIGHT + BALL_RADIUS
            top == b.translation.y >= net.y + NET_HEIGHT - BALL_RADIUS
        IN /\ (inside /\ top) =>
                /\ a.velocity.y = Quot(-b.velocity.y * BALL_BOUNCE_FACTOR, 10)
                /\ a.translation.y = net.y + NET_HEIGHT + BALL_RADIUS
                /\ a.translation.x = b.translation.x
                /\ a.velocity.x = b.velocity.x
           /\ (inside /\ ~top) =>
                /\ a.velocity.x = Quot(-b.velocity.x * BALL_BOUNCE_FACTOR, 10)
                /\ a.translation.x =
                      (IF b.translation.x < net.x
                       THEN net.x - NET_WIDTH \div 2 - BALL_RADIUS - 1 * Scale
                       ELSE net.x + NET_WIDTH \div 2 + BALL_RADIUS + 1 * Scale)
                /\ a.translation.y = b.translation.y
                /\ a.velocity.y = b.velocity.y
           /\ ~inside => a = b

\* C20 witness: a top collision in the band just under the top of the net:
\* the ball's centre is below net_y + NET_HEIGHT, it leaves with its Y on
\* net_y + NET_HEIGHT + BALL_RADIUS and its X where it was.
C20_Witness ==
    /\ Ticked
    /\ HitNetTop
    /\ AfterBallPlayerCollision.ball.translation.y
          < AfterBallPlayerCollision.net.y + NET_HEIGHT
    /\ AfterBallNetCollision.ball.translation.y
          = AfterBallPlayerCollision.net.y + NET_HEIGHT + BALL_RADIUS
    /\ AfterBallNetCollision.ball.translation.x
          = AfterBallPlayerCollision.ball.translation.x

\* C21: at the end of every tick of a match in progress the ball is outside
\* the collision region of the net: not both |x - net_x| < NET_WIDTH/2 +
\* BALL_RADIUS and net_y < y < net_y + NET_HEIGHT + BALL_RADIUS.
C21_NetNonOverlap ==
    (Ticked /\ ~is_finished(world.match_state)) =>
        ~(/\ Abs(world.ball.translation.x - world.net.x) < NET_WIDTH \div 2 + BALL_RADIUS
          /\ world.net.y < world.ball.translation.y
          /\ world.ball.translation.y < world.net.y + NET_HEIGHT + BALL_RADIUS)

\* a tick in which ball_net_collision found the ball inside the region, from
\* the side in one case and from the top in the other
C21_Witness ==
    /\ Ticked
    /\ HitNet
    /\ ~is_finished(world.match_state)
    /\ world.ball.translation # AfterBallPlayerCollision.ball.translation
    /\ Abs(world.ball.translation.x - world.net.x) <= NET_WIDTH \div 2 + BALL_RADIUS + 1 * Scale

\* C22: whenever ball_player_collision detects a hit, the normalized
\* horizontal offset rel_x / (PLAYER_WIDTH/2) lies in [-1, 1], so the bounce
\* angle is at most 45 degrees in magnitude.
C22_BounceAngleRange ==
    Ticked =>
        \A i \in PlayerIdx :
            HitPlayer(i) =>
                LET ball == AfterBallMovement.ball
                    player == AfterBallMovement.players[i]
                    rel_x == ball.translation.x - PlayerCenter(player).x
                IN /\ Abs(rel_x) <= PLAYER_WIDTH \div 2
                   /\ Abs(BounceAngle(ball, player)) <= FRAC_PI_4

\* C23: after ball_player_collision resolved a hit the ball is at the
\* computed new position, X = player_centre.x + signum(rel_x) *
\* (PLAYER_WIDTH/2 + BALL_RADIUS + 1) and Y = player_centre.y +
\* PLAYER_HEIGHT/2 + BALL_RADIUS + 1, and its speed is at most MAX_BALL_SPEED.
C23_HitReposition ==
    Ticked =>
        \A i \in PlayerIdx :
            HitPlayer(i) =>
                LET ball == AfterBallMovement.ball
                    player_center == PlayerCenter(AfterBallMovement.players[i])
                    rel_x == ball.translation.x - player_center.x
                    after == AfterBallPlayerCollision.ball
                IN /\ after.translation.x = player_center.x
                        + Signum(rel_x) * (PLAYER_WIDTH \div 2 + BALL_RADIUS + 1 * Scale)
                   /\ after.translation.y = player_center.y
                        + PLAYER_HEIGHT \div 2 + BALL_RADIUS + 1 * Scale
                   /\ SpeedSquared(after.velocity) <= MAX_BALL_SPEED * MAX_BALL_SPEED

\* C24: immediately after ball_player_collision resolved a hit with a player,
\* the ball no longer satisfies the collision test against that player.
C24_HitSeparation ==
    Ticked =>
        \A i \in PlayerIdx :
            HitPlayer(i) =>
                ~Collides(AfterBallPlayerCollision.ball, AfterBallPlayerCollision.players[i])

\* a hit that left the ball horizontally within reach of the player it hit
C24_Witness ==
    /\ Ticked
    /\ \E i \in PlayerIdx :
          /\ HitPlayer(i)
          /\ Abs(AfterBallPlayerCollision.ball.translation.x
                   - PlayerCenter(AfterBallPlayerCollision.players[i]).x)
                < PLAYER_WIDTH \div 2 + BALL_RADIUS
          /\ AfterBallPlayerCollision.ball.translation.y
                - PlayerCenter(AfterBallPlayerCollision.players[i]).y
                >= PLAYER_HEIGHT \div 2 + BALL_RADIUS

\* C25: in every reachable state the ball satisfies the collision test of
\* ball_player_collision for at most one player, so the outcome of the stage
\* is the hit of whichever player collides, independent of the order in which
\* the players are visited.
C25_SingleRebound ==
    /\ \A w \in Worlds :
          ~(Collides(w.ball, w.players[0]) /\ Collides(w.ball, w.players[1]))
    /\ Ticked =>
          \A i \in PlayerIdx :
              (/\ ~is_finished(AfterBallMovement.match_state)
               /\ Collides(AfterBallMovement.ball, AfterBallMovement.players[i])) =>
                  AfterBallPlayerCollision.ball =
                      ApplyHit(AfterBallMovement.ball,
                               HitVelocity(AfterBallMovement.ball, AfterBallMovement.players[i]),
                               HitPosition(AfterBallMovement.ball, AfterBallMovement.players[i]))

\* a hit by the player visited second, with the ball less than a unit outside
\* the box of the other player, who stands at its inner bound
C25_Witness ==
    /\ Ticked
    /\ HitPlayer(PlayerOrder[2])
    /\ AfterBallMovement.players[PlayerOrder[1]].translation.x = PlayerBounds(PlayerOrder[1])[2]
    /\ Abs(AfterBallMovement.ball.translation.x
             - PlayerCenter(AfterBallMovement.players[PlayerOrder[1]]).x)
          < PLAYER_WIDTH \div 2 + BALL_RADIUS + 1 * Scale
    /\ Abs(AfterBallMovement.ball.translation.y
             - PlayerCenter(AfterBallMovement.players[PlayerOrder[1]]).y)
          < PLAYER_HEIGHT \div 2 + BALL_RADIUS

\* C26: for a hit on a player whose velocity is zero, the ball leaves towards
\* the side of the player it struck, for player 0 and for player 1 alike: the
\* sign of the resulting velocity.x is the sign of rel_x (a horizontal
\* component is present once the offset is a unit or more), and the vertical
\* component points up.
C26_BounceSymmetry ==
    Ticked =>
        \A i \in PlayerIdx :
            (HitPlayer(i) /\ AfterBallMovement.players[i].velocity = Vec2(0, 0)) =>
                LET rel_x == AfterBallMovement.ball.translation.x
                               - PlayerCenter(AfterBallMovement.players[i]).x
                    velocity == AfterBallPlayerCollision.ball.velocity
                IN /\ rel_x > 0 => velocity.x >= 0
                   /\ rel_x < 0 => velocity.x <= 0
                   /\ rel_x = 0 => velocity.x = 0
                   /\ Abs(rel_x) >= 1 * Scale => velocity.x # 0
                   /\ velocity.y > 0

\* a hit on the standing player 1, a unit or more off its centre
C26_Witness ==
    /\ Ticked
    /\ HitPlayer(1)
    /\ AfterBallMovement.players[1].velocity = Vec2(0, 0)
    /\ Abs(AfterBallMovement.ball.translation.x
             - PlayerCenter(AfterBallMovement.players[1]).x) >= 1 * Scale

\* C27: player_movement changes only the players; ball_movement changes only
\* the ball and the MatchState; ball_player_collision and ball_net_collision
\* change only the ball; the transforms of the net and of the floor are the
\* ones gameplay_startup gave them in every world.
C27_StageWriteSets ==
    /\ \A w \in Worlds : w.net = StartWorld.net /\ w.floor = StartWorld.floor
    /\ Ticked =>
          /\ AfterPlayerMovement = [TickStart EXCEPT !.players = AfterPlayerMovement.players]
          /\ AfterBallMovement = [AfterPlayerMovement EXCEPT
                                     !.ball = AfterBallMovement.ball,
                                     !.match_state = AfterBallMovement.match_state]
          /\ AfterBallPlayerCollision = [AfterBallMovement EXCEPT
                                            !.ball = AfterBallPlayerCollision.ball]
          /\ AfterBallNetCollision = [AfterBallPlayerCollision EXCEPT
                                         !.ball = AfterBallNetCollision.ball]

\* a tick in which each of the four stages wrote: a player moved, the ball
\* moved, a player hit it and the net bounced it
C27_Witness ==
    /\ Ticked
    /\ AfterPlayerMovement.players # TickStart.players
    /\ AfterBallMovement.ball # AfterPlayerMovement.ball
    /\ HitAnyPlayer
    /\ AfterBallPlayerCollision.ball # AfterBallMovement.ball
    /\ HitNet
    /\ AfterBallNetCollision.ball # AfterBallPlayerCollision.ball

\* C28: ball_movement applies gravity, then integrates the position, then
\* bounces off the side boundaries, then off the ceiling, then runs the floor
\* check, then clamps the speed.  The floor check sees the position the
\* boundary and ceiling steps left: a ball that reaches a side boundary and
\* the floor in the same tick scores, for the side its clamped X is on.
C28_BallStepOrder ==
    (Ticked /\ ~is_finished(AfterPlayerMovement.match_state)) =>
        LET before == AfterPlayerMovement
            after == AfterBallMovement
            gravity_vy == before.ball.velocity.y - GRAVITY
            moved_x == before.ball.translation.x + before.ball.velocity.x
            moved_y == before.ball.translation.y + gravity_vy
            wall == \/ moved_x - BALL_RADIUS <= LEFT_BOUNDARY
                    \/ moved_x + BALL_RADIUS >= RIGHT_BOUNDARY
            wall_x == IF wall
                      THEN Clamp(moved_x, LEFT_BOUNDARY + BALL_RADIUS,
                                 RIGHT_BOUNDARY - BALL_RADIUS)
                      ELSE moved_x
            wall_vx == IF wall THEN TimesBounce(-before.ball.velocity.x)
                       ELSE before.ball.velocity.x
            ceiling == moved_y + BALL_RADIUS >= CEILING
            ceiling_y == IF ceiling THEN CEILING - BALL_RADIUS ELSE moved_y
            ceiling_vy == IF ceiling THEN TimesBounce(-gravity_vy) ELSE gravity_vy
            floor == ceiling_y + BALL_RADIUS <= GROUND_LEVEL
            scorer == IF wall_x > CENTER_BOUNDARY THEN 0 ELSE 1
        IN IF floor
           THEN /\ Scores(after)[scorer] = Scores(before)[scorer] + 1
                /\ Scores(after)[1 - scorer] = Scores(before)[1 - scorer]
                /\ after.ball.translation.x
                      = (IF wall_x > CENTER_BOUNDARY THEN RESET_X ELSE -RESET_X)
           ELSE /\ Scores(after) = Scores(before)
                /\ after.ball.translation = Vec2(wall_x, ceiling_y)
                /\ after.ball.velocity = ClampSpeed(Vec2(wall_vx, ceiling_vy))

\* a tick in which the ball reached a side boundary and the floor at once
C28_Witness ==
    /\ Ticked
    /\ HitWall
    /\ Scored
    /\ AfterBallMovement.ball.translation.y = 0

\* C29: when the boundary step of ball_movement fires, X is clamped into
\* [LEFT_BOUNDARY + BALL_RADIUS, RIGHT_BOUNDARY - BALL_RADIUS] and velocity.x
\* becomes -velocity.x * BALL_BOUNCE_FACTOR, which points into the court:
\* not negative after a bounce off the left wall, not positive after one off
\* the right wall.
C29_WallBounceInward ==
    (Ticked /\ HitWall) =>
        LET before == AfterPlayerMovement.ball
            after == AfterBallMovement.ball
            left == FlightX - BALL_RADIUS <= LEFT_BOUNDARY
            right == FlightX + BALL_RADIUS >= RIGHT_BOUNDARY
            bounced == TimesBounce(-before.velocity.x)
        IN /\ ~(left /\ right)
           /\ left => bounced >= 0
           /\ right => bounced <= 0
           /\ ~Scored =>
                 /\ after.translation.x = Clamp(FlightX, LEFT_BOUNDARY + BALL_RADIUS,
                                                RIGHT_BOUNDARY - BALL_RADIUS)
                 /\ after.velocity.x * bounced >= 0
                 /\ Abs(after.velocity.x) <= Abs(bounced)
                 /\ left => after.velocity.x >= 0
                 /\ right => after.velocity.x <= 0

\* a bounce off the left wall that sends the ball back to the right
C29_Witness ==
    /\ Ticked
    /\ HitWall
    /\ ~Scored
    /\ FlightX - BALL_RADIUS <= LEFT_BOUNDARY
    /\ AfterPlayerMovement.ball.velocity.x < 0
    /\ AfterBallMovement.ball.velocity.x > 0

\* C30: at the end of every tick the ball's Y is above GROUND_LEVEL -
\* BALL_RADIUS and at most 290 - BALL_RADIUS.
C30_BallYContained ==
    /\ world.ball.translation.y > GROUND_LEVEL - BALL_RADIUS
    /\ world.ball.translation.y <= 290 * Scale - BALL_RADIUS

\* the end of a tick in which the falling ball passed the floor test with its
\* centre below GROUND_LEVEL
C30_Witness ==
    /\ Ticked
    /\ ~is_finished(world.match_state)
    /\ ~Scored
    /\ world.ball.velocity.y < 0
    /\ world.ball.translation.y < GROUND_LEVEL

\* C31: in the tick whose floor collision raises a score to target_score,
\* ball_player_collision and ball_net_collision leave the ball as
\* ball_movement reset it; in every Finished state the ball is at (290, 0) or
\* (-290, 0) with velocity (0, GRAVITY * 30), and no later tick moves it.
C31_WinningTick ==
    /\ is_finished(world.match_state) =>
          /\ world.ball.translation \in {Vec2(290 * Scale, 0), Vec2(-290 * Scale, 0)}
          /\ world.ball.velocity = Vec2(0, GRAVITY * 30)
    /\ (Ticked /\ is_finished(AfterBallMovement.match_state)) =>
          /\ AfterBallPlayerCollision = AfterBallMovement
          /\ AfterBallNetCollision = AfterBallMovement
          /\ world.ball = AfterBallMovement.ball
    /\ (Ticked /\ is_finished(TickPrev.match_state)) => world.ball = TickPrev.ball

\* a tick of a match player 0 had already won, with the ball still at (290, 0)
C31_Witness ==
    /\ Ticked
    /\ is_finished(TickPrev.match_state)
    /\ Scores(TickPrev)[0] = TickPrev.match_state.target_score
    /\ world.ball.translation = Vec2(290 * Scale, 0)
    /\ world.color.a = 0

\* C32: from the state gameplay_startup builds, with both players' controls
\* neutral in every tick, the ball keeps X = -290 and is hit by player 0 again
\* and again, no floor collision fires, both scores stay 0 and the match
\* never becomes Finished.
C32_NoProgress ==
    /\ [](/\ world.ball.translation.x = -290 * Scale
          /\ Ticked => ~FloorCollision(BallFlight(AfterPlayerMovement.ball))
          /\ Scores(world) = [i \in PlayerIdx |-> 0]
          /\ ~is_finished(world.match_state))
    /\ []<>(Ticked /\ HitPlayer(0))

\* a rebound off player 0, both players standing where gameplay_startup put
\* them with neutral controls
C32_Witness ==
    /\ Ticked
    /\ HitPlayer(0)
    /\ \A i \in PlayerIdx :
          /\ world.match_inputs[i] = PlayerControlDefault
          /\ world.players[i].translation = StartWorld.players[i].translation
    /\ AfterBallMovement.ball.velocity.y < 0
    /\ world.ball.velocity.y > 0

\* C33: handle_escape is the last system of every tick, in a finished match
\* too.  If a player's control has esc_start_just_pressed the session is
\* marked for deletion and one main-menu session is created, however many
\* players pressed; otherwise nothing changes.  It changes nothing else:
\* scores, ball and players are as the stages before it left them.
C33_LeavingMatch ==
    Ticked =>
        LET pressed == \E player_idx \in PlayerIdx :
                          AfterVisibility.match_inputs[player_idx].esc_start_just_pressed
        IN /\ Systems[Len(Systems)] = "handle_escape"
           /\ Len(tick) = Len(Systems) + 2
           /\ world = AfterEscape
           /\ pressed =>
                 AfterEscape = [AfterVisibility EXCEPT
                                   !.session = [delete |-> TRUE,
                                                main_menus |-> AfterVisibility.session.main_menus + 1]]
           /\ ~pressed => AfterEscape = AfterVisibility
           /\ AfterEscape.match_state = AfterVisibility.match_state
           /\ AfterEscape.ball = AfterVisibility.ball
           /\ AfterEscape.players = AfterVisibility.players

\* a tick of a finished match in which both players pressed escape
C33_Witness ==
    /\ Ticked
    /\ is_finished(TickPrev.match_state)
    /\ \A player_idx \in PlayerIdx :
          AfterVisibility.match_inputs[player_idx].esc_start_just_pressed
    /\ world.session = [delete |-> TRUE, main_menus |-> 1]

\* C34: the status leaves Idle only by becoming Searching, in
\* menu_selection_system, with the status Idle, the menu in OnlinePlayConfig
\* and a rising edge of jump or enter; handle_online_menu_matchmaking turns
\* Searching into WaitingForPlayers and starts the search once, in that tick
\* only; WaitingForPlayers stays until a socket is returned or escape is
\* pressed; the status changes in no other way.
C34_StatusSequence ==
    /\ Status(world) \in {"Idle", "WaitingForPlayers"}
    /\ Ticked =>
          LET before == Status(MenuPrev)
              selected == Status(AfterMenuSelection)
              after == Status(AfterMatchmaking)
              player_control == AfterMenuInput.collector.current_controls
          IN /\ Status(AfterMenuInput) = before
             /\ selected # before =>
                   \/ /\ before = "Idle"
                      /\ selected = "Searching"
                      /\ AfterMenuInput.menu_data.state = "OnlinePlayConfig"
                      /\ player_control.jump_just_pressed \/ player_control.enter_just_pressed
                   \/ /\ before = "WaitingForPlayers"
                      /\ selected = "Idle"
                      /\ player_control.esc_start_pressed
             /\ selected = "Searching" =>
                   after = "WaitingForPlayers" /\ world.searches = 1
             /\ selected # "Searching" => world.searches = 0
             /\ selected = "WaitingForPlayers" =>
                   after = (IF AfterMenuInput.env.socket THEN "Idle" ELSE "WaitingForPlayers")
             /\ selected = "Idle" => after = "Idle"
             /\ (/\ before = "WaitingForPlayers"
                 /\ ~player_control.esc_start_pressed
                 /\ ~AfterMenuInput.env.socket) => after = "WaitingForPlayers"

\* a tick that waits on: the search was started in an earlier tick, no socket
\* is returned and escape is up, while enter is pressed again
C34_Witness ==
    /\ Ticked
    /\ Status(MenuPrev) = "WaitingForPlayers"
    /\ AfterMenuInput.collector.current_controls.enter_just_pressed
    /\ ~AfterMenuInput.env.socket
    /\ Status(world) = "WaitingForPlayers"
    /\ world.searches = 0

\* C35: a gameplay session is created only by handle_online_menu_matchmaking,
\* in the WaitingForPlayers state, in a tick in which update_search_for_game
\* returns a socket; the same call leaves the status Idle and the menu
\* session marked for deletion.  MatchFound is never the status at the end of
\* a tick, a menu session starts at most one gameplay session, and the new
\* session's MatchState has scores [0, 0] and target TARGET_SCORE.
C35_StartingMatch ==
    /\ Status(world) # "MatchFound"
    /\ Len(world.session.gameplay) <= 1
    /\ world.session.delete <=> Len(world.session.gameplay) = 1
    /\ Ticked =>
          /\ AfterMenuSelection.session = MenuPrev.session
          /\ AfterMatchmaking.session # MenuPrev.session <=>
                /\ Status(AfterMenuSelection) = "WaitingForPlayers"
                /\ AfterMenuInput.env.socket
          /\ AfterMatchmaking.session # MenuPrev.session =>
                /\ Status(AfterMatchmaking) = "Idle"
                /\ AfterMatchmaking.session.delete
                /\ AfterMatchmaking.session.gameplay =
                      <<[player_scores |-> [i \in PlayerIdx |-> 0], target_score |-> 15]>>
                /\ ~is_finished(AfterMatchmaking.session.gameplay[1])

\* the tick in which the opponent was found
C35_Witness ==
    /\ Ticked
    /\ Status(MenuPrev) = "WaitingForPlayers"
    /\ AfterMenuInput.env.socket
    /\ world.session.delete
    /\ Len(world.session.gameplay) = 1
    /\ Status(world) = "Idle"

\* C36: in a tick in which the status is not Idle and esc_start is pressed,
\* menu_selection_system sets the status to Idle and the menu to MainMenu,
\* and handle_online_menu_matchmaking, which runs after it, starts no gameplay
\* session in that tick; later ticks start one only from WaitingForPlayers,
\* which is entered only through a new search from OnlinePlayConfig.
C36_CancelMatchmaking ==
    Ticked =>
        LET player_control == AfterMenuInput.collector.current_controls
            started == AfterMatchmaking.session # MenuPrev.session
        IN /\ MenuSystems = <<"handle_menu_input", "menu_selection_system",
                               "handle_online_menu_matchmaking">>
           /\ (Status(MenuPrev) # "Idle" /\ player_control.esc_start_pressed) =>
                 /\ Status(AfterMenuSelection) = "Idle"
                 /\ AfterMenuSelection.menu_data.state = "MainMenu"
                 /\ ~started
                 /\ Status(world) = "Idle"
                 /\ world.searches = 0
           /\ started =>
                 /\ Status(MenuPrev) = "WaitingForPlayers"
                 /\ ~player_control.esc_start_pressed
           /\ (Status(MenuPrev) = "Idle" /\ Status(world) # "Idle") =>
                 /\ AfterMenuInput.menu_data.state = "OnlinePlayConfig"
                 /\ player_control.jump_just_pressed \/ player_control.enter_just_pressed
                 /\ world.searches = 1
                 /\ ~started

\* a tick that cancels the search although the matchmaker has a socket
C36_Witness ==
    /\ Ticked
    /\ Status(MenuPrev) = "WaitingForPlayers"
    /\ AfterMenuInput.collector.current_controls.esc_start_pressed
    /\ AfterMenuInput.env.socket
    /\ Status(world) = "Idle"
    /\ world.menu_data.state = "MainMenu"
    /\ world.session = MenuPrev.session

\* The select buttons with a rising edge in the last frame: held after
\* handle_menu_input, not held before the frame
RisingSelect ==
    (Held(AfterMenuInput.collector.current_controls)
        \ Held(MenuPrev.collector.current_controls)) \cap {"jump", "enter"}

\* the last frame opened OnlinePlayConfig from the main menu
Opened ==
    /\ MenuPrev.menu_data.state = "MainMenu"
    /\ world.menu_data.state = "OnlinePlayConfig"

\* the last frame requested the search
Requested == Status(MenuPrev) = "Idle" /\ Status(AfterMenuSelection) = "Searching"

\* C37 as stated: from the main menu with option 0 selected, one press of
\* enter or jump, however long it is held, opens OnlinePlayConfig without
\* starting matchmaking; the status becomes Searching only after the button
\* that opened OnlinePlayConfig has been released and a button is pressed
\* again.
C37_ReleasedFirst ==
    Ticked =>
        /\ Opened => (Status(world) = "Idle" /\ world.searches = 0)
        /\ Requested => (RisingSelect # {} /\ MenuPrev.opener = {})

\* C37, amended: one press of enter or jump, however long it is held, opens
\* OnlinePlayConfig without starting matchmaking; the status becomes
\* Searching only in a later frame, started in OnlinePlayConfig, that has a
\* rising edge of jump or enter of its own.  The button that opened
\* OnlinePlayConfig can give that edge only after a release; the other select
\* button can give it while the first is still held.
C37_TwoPresses ==
    Ticked =>
        /\ Opened =>
              /\ RisingSelect # {}
              /\ MenuPrev.menu_data.selected_option = 0
              /\ Status(world) = "Idle"
              /\ world.searches = 0
        /\ Requested =>
              /\ MenuPrev.menu_data.state = "OnlinePlayConfig"
              /\ RisingSelect # {}
              /\ RisingSelect \cap MenuPrev.opener = {}
        /\ (MenuPrev.menu_data.state = "OnlinePlayConfig" /\ RisingSelect = {}) =>
              Status(AfterMenuSelection) # "Searching"

\* the search requested by enter while jump, whose press opened
\* OnlinePlayConfig, is still held
C37_Witness ==
    /\ Ticked
    /\ Requested
    /\ MenuPrev.opener = {"jump"}
    /\ RisingSelect = {"enter"}
    /\ Status(world) = "WaitingForPlayers"

\* C38: in every menu state selected_option is 0 or 1 and input_delay_frames
\* is in [1, 60], starting at 2; each changes by at most 1 in a tick, and only
\* in a tick in which scroll_timer has reached zero, which then sets
\* scroll_timer to 200 ms.
C38_MenuBounds ==
    /\ world.menu_data.selected_option \in {0, 1}
    /\ world.menu_data.input_delay_frames \in 1..60
    /\ ~Ticked => world.menu_data.input_delay_frames = 2
    /\ Ticked =>
          LET before == MenuPrev.menu_data
              after == world.menu_data
              timer == IF before.scroll_timer > AfterMenuInput.env.delta
                       THEN before.scroll_timer - AfterMenuInput.env.delta
                       ELSE 0
              changed == \/ after.selected_option # before.selected_option
                         \/ after.input_delay_frames # before.input_delay_frames
          IN /\ Abs(after.selected_option - before.selected_option) <= 1
             /\ Abs(after.input_delay_frames - before.input_delay_frames) <= 1
             /\ changed => (timer = 0 /\ after.scroll_timer = 200)
             /\ timer # 0 => after.scroll_timer = timer

\* right is held with the input delay at 60 and the timer run out: the delay
\* stays 60 and the timer is set again
C38_Witness ==
    /\ Ticked
    /\ MenuPrev.menu_data.input_delay_frames = 60
    /\ MenuPrev.menu_data.state = "OnlinePlayConfig"
    /\ AfterMenuInput.collector.current_controls.right_pressed
    /\ MenuPrev.menu_data.scroll_timer <= AfterMenuInput.env.delta
    /\ world.menu_data.input_delay_frames = 60
    /\ world.menu_data.scroll_timer = 200

\* C39: at the end of every tick the alpha of the ball's path is 0 if the
\* match is Finished and 1 otherwise, and its red, green and blue are the ones
\* gameplay_startup gave it.  update_ball_visibility changes nothing but that
\* colour: positions, velocities and scores leave it as they entered it.  In a
\* tick that starts with the match Finished, player_movement, ball_movement,
\* ball_player_collision and ball_net_collision leave the world as it was, so
\* ball, players and match state end the tick as they began it.
C39_BallVisibility ==
    /\ world.color = ColorRgba(BallColor.r, BallColor.g, BallColor.b,
                               IF is_finished(world.match_state) THEN 0 ELSE 1)
    /\ Ticked =>
          /\ AfterVisibility =
                [AfterBallNetCollision EXCEPT
                    !.color.a = IF is_finished(AfterBallNetCollision.match_state)
                                THEN 0 ELSE 1]
          /\ AfterVisibility.ball = AfterBallNetCollision.ball
          /\ AfterVisibility.players = AfterBallNetCollision.players
          /\ AfterVisibility.match_state = AfterBallNetCollision.match_state
          /\ world.color = AfterVisibility.color
          /\ is_finished(TickStart.match_state) =>
                /\ AfterPlayerMovement = TickStart
                /\ AfterBallMovement = TickStart
                /\ AfterBallPlayerCollision = TickStart
                /\ AfterBallNetCollision = TickStart
                /\ world.ball = TickPrev.ball
                /\ world.players = TickPrev.players
                /\ world.match_state = TickPrev.match_state

\* the tick in which the match is won: the ball's path was opaque white when
\* update_ball_visibility ran and is transparent white after it
C39_Witness ==
    /\ Ticked
    /\ ~is_finished(TickPrev.match_state)
    /\ AfterBallNetCollision.color = ColorRgba(1, 1, 1, 1)
    /\ is_finished(AfterBallNetCollision.match_state)
    /\ AfterVisibility.color = ColorRgba(1, 1, 1, 0)
    /\ world.color.a = 0
=============================================================================
